---- MODULE Spec2Model ----
(***************************************************************************)
(* Verification model of the exam-authoring tool:                          *)
(*   - the category allocator  (src/app/admin/papers/create/page.tsx)      *)
(*   - the region suggestion pipeline                                      *)
(*                             (src/app/admin/exams/[examId]/edit/page.tsx)*)
(*   - the question store      (src/lib/firebase/questions.ts)             *)
(* Real-valued quantities of the source are kept exact: ideal shares are   *)
(* fractions over totalWeight, coordinates are integers in 1/100 pixel.    *)
(***************************************************************************)
EXTENDS Integers, Sequences, FiniteSets, TLC

(***************************************************************************)
(* Bounds of the allocator inputs.                                         *)
(***************************************************************************)
MaxCats == 3
MaxAvail == 3
MaxReq == 4

VARIABLES
  \* ---- allocateQuestionCountsByCategory ----
  availableByCategory,       \* bucket.candidates.length, in bucket order
  ratioInputs,               \* ratioInputs[category], in bucket order
  requestedCount,
  requestedWeightByCategory,
  totalWeight,
  idealByCategory,           \* numerators; ideal[c] = idealByCategory[c] / totalWeight
  allocatedByCategory,
  remaining,
  sweepIndex,                \* position of the for-loop of the final sweep
  thrown,                    \* the Error thrown, or NoError
  returned,                  \* the returned record, or NoResult
  apc                        \* position inside the function

allocVars == << availableByCategory, ratioInputs, requestedCount,
                requestedWeightByCategory, totalWeight, idealByCategory,
                allocatedByCategory, remaining, sweepIndex, thrown, returned, apc >>


VARIABLES
  \* ---- runAutoSuggest / detectSuggestionRects / normalizeSuggestionRects ----
  displaySize,     \* DisplaySize in pixels
  image,           \* content of the working canvas
  surface,         \* what the canvas does, see Surfaces
  sourceSize,      \* [width |-> sourceWidth, height |-> sourceHeight]
  graySum,         \* in tenths
  threshold,       \* <<n, d>>: threshold = n / d, in tenths
  mask,            \* set of cell indexes cy * cols + cx with mask[...] = 1
  dilated,         \* set of cell indexes with dilated[...] = 1
  visited,         \* set of cell indexes with visited[...] = 1
  boxes,           \* boxes of detectSuggestionRects
  rawRects,        \* value returned by detectSuggestionRects
  filtered,        \* normalizeSuggestionRects: filtered
  mergeIndex,      \* position of for (const rect of filtered)
  merged,          \* normalizeSuggestionRects: merged
  normalizedRects, \* value returned by normalizeSuggestionRects
  dpc              \* position inside the pipeline

detectVars == << displaySize, image, surface, sourceSize, graySum, threshold, mask,
                 dilated, visited, boxes, rawRects, filtered, mergeIndex, merged,
                 normalizedRects, dpc >>

VARIABLES
  \* ---- the questions collection of one exam and the calls on it ----
  questions,       \* document id -> document data
  serverTime,      \* value of the last serverTimestamp()
  reply            \* the last call and what it returned

storeVars == << questions, serverTime, reply >>

VARIABLES
  \* ---- generatePaper ----
  questionCandidates,            \* the candidates of the selected exam
  pageConfigs,                   \* selectedExam.pageConfigs: the category of each page
  categoryRatioInputs,           \* category -> text of its ratio field
  questionCountInput,            \* the number typed, 0 when it is not a number
  bucketIndex,                   \* position of the flatMap over candidateBuckets
  selectedCandidates,
  randomizedSelectedCandidates,
  renderedQuestions,
  errorMessage,
  downloadItem,                  \* << >> or <<item>>
  gpc                            \* position inside generatePaper

paperVars == << questionCandidates, pageConfigs, categoryRatioInputs, questionCountInput,
                bucketIndex, selectedCandidates, randomizedSelectedCandidates,
                renderedQuestions, errorMessage, downloadItem, gpc >>

VARIABLES
  \* ---- the question editor of one exam page ----
  activeQNo,                     \* the question number being edited
  activeParts,                   \* parts: the regions of the active question
  selectedPartId,
  activeReviewStatus,            \* reviewStatus
  questionInitialized,
  skipNextAutosaveRef,           \* skipNextAutosaveRef.current
  suggestedDrafts,               \* the drafts of the automatic suggestion
  selectedSuggestedPartId,
  autosaveTimer,                 \* the pending setTimeout of the autosave effect
  effectPending,                 \* a dependency of the autosave effect changed in the last render
  saveCall,                      \* the saveQuestion call made since the last change
  suggestStartQNo,               \* activeQNo at the last runAutoSuggest
  changeOrigin,                  \* who made the last change of activeParts or activeReviewStatus
  changeSerial                   \* parity of the number of such changes

editorVars == << activeQNo, activeParts, selectedPartId, activeReviewStatus, questionInitialized,
                 skipNextAutosaveRef, suggestedDrafts, selectedSuggestedPartId,
                 autosaveTimer, effectPending, saveCall, suggestStartQNo,
                 changeOrigin, changeSerial >>

VARIABLES
  \* ---- the render pipeline of one exam ----
  exam,                          \* the exams/{examId} document
  sourcePdf,                     \* the uploaded source PDF
  derivedPages,                  \* page number -> upload whose page image is stored
  batchQueue,                    \* the start pages of the batch messages Pub/Sub holds
  ackedBatches,                  \* acknowledged messages that Pub/Sub may deliver again
  worker,                        \* the running renderPdfBatchWorker invocation
  faults,                        \* failures so far
  renderLog                      \* what the last delivery did

renderVars == << exam, sourcePdf, derivedPages, batchQueue, ackedBatches, worker,
                 faults, renderLog >>

vars == << allocVars, detectVars, storeVars, paperVars, editorVars, renderVars >>

(***************************************************************************)
(* Small helpers.                                                          *)
(***************************************************************************)
Min(a, b) == IF a <= b THEN a ELSE b
Max(a, b) == IF a >= b THEN a ELSE b

RECURSIVE SumSeq(_)
SumSeq(s) == IF s = << >> THEN 0 ELSE Head(s) + SumSeq(Tail(s))

(* Math.floor(n / d) for an integer numerator and a positive denominator. *)
FloorDiv(n, d) == n \div d

(***************************************************************************)
(* Text inputs of the ratio fields.  A ratio input is the string typed by  *)
(* the operator, or undefined when the category has no entry.              *)
(***************************************************************************)
Undefined == [kind |-> "undefined"]
EmptyText == [kind |-> "text", text |-> ""]
NonNumericText == [kind |-> "text", text |-> "abc"]
NumericText(n) == [kind |-> "numeric", value |-> n]

RatioInputValues ==
  { Undefined, NonNumericText, NumericText(-5),
    NumericText(40), NumericText(60), NumericText(150) }

(* Variant: a missing entry counts as the full ratio instead of 0. *)
parseRatioInputValue_MissingIsFull(value) ==
  IF value = Undefined \/ value = EmptyText THEN 100
  ELSE IF value.kind # "numeric" THEN 0
  ELSE Max(0, Min(100, value.value))

(* parseRatioInputValue: undefined/empty -> 0, not finite -> 0, else clamp. *)
parseRatioInputValue(value) ==
  IF value = Undefined \/ value = EmptyText THEN 0
  ELSE IF value.kind # "numeric" THEN 0
  ELSE Max(0, Min(100, value.value))

(***************************************************************************)
(* Values of thrown / returned.                                            *)
(***************************************************************************)
NoError == [kind |-> "none"]
NoResult == [kind |-> "none"]
WeightErrorMessage == "category ratio total must be greater than 0"
AvailabilityErrorMessage == "not enough available questions per category to fill the requested count"
NewError(msg) == [kind |-> "Error", message |-> msg]

Unset == << >>

(***************************************************************************)
(* The inputs of one call.  candidateBuckets holds one bucket per category *)
(* that has at least one candidate; requestedCount comes from              *)
(* toPositiveInt.  The calls of ScenarioCalls are the documented examples.    *)
(***************************************************************************)
BoundedCalls ==
  { [available |-> av, ratios |-> ra, requested |-> rq] :
      av \in UNION { [1..n -> 1..MaxAvail] : n \in 1..MaxCats },
      ra \in UNION { [1..n -> RatioInputValues] : n \in 1..MaxCats },
      rq \in 1..MaxReq }

ScenarioCalls ==
  { [available |-> <<10, 10>>, ratios |-> <<NumericText(60), NumericText(40)>>, requested |-> 10],
    [available |-> <<3, 10>>,  ratios |-> <<NumericText(60), NumericText(40)>>, requested |-> 10],
    [available |-> <<2>>,      ratios |-> <<NumericText(100)>>,                 requested |-> 5],
    [available |-> <<10, 10>>, ratios |-> <<NumericText(50), NumericText(50)>>, requested |-> 1] }

AllocCalls ==
  { c \in BoundedCalls : Len(c.available) = Len(c.ratios) } \cup ScenarioCalls

categoryOrder == DOMAIN availableByCategory

AllocInit ==
  /\ \E c \in AllocCalls :
       /\ availableByCategory = c.available
       /\ ratioInputs = c.ratios
       /\ requestedCount = c.requested
  /\ requestedWeightByCategory = Unset
  /\ totalWeight = 0
  /\ idealByCategory = Unset
  /\ allocatedByCategory = Unset
  /\ remaining = 0
  /\ sweepIndex = 0
  /\ thrown = NoError
  /\ returned = NoResult
  /\ apc = "weights"

(***************************************************************************)
(* Lines 285-295: parse the weights, sum them, reject a non-positive sum.  *)
(***************************************************************************)
ParseWeights ==
  /\ apc = "weights"
  /\ UNCHANGED << detectVars, storeVars, paperVars, editorVars, renderVars >>
  /\ LET w == [c \in categoryOrder |-> parseRatioInputValue(ratioInputs[c])]
         t == SumSeq(w)
     IN /\ requestedWeightByCategory' = w
        /\ totalWeight' = t
        /\ IF t <= 0
             THEN /\ thrown' = NewError(WeightErrorMessage)
                  /\ apc' = "done"
             ELSE /\ thrown' = thrown
                  /\ apc' = "ideal"
  /\ UNCHANGED << availableByCategory, ratioInputs, requestedCount, idealByCategory,
                  allocatedByCategory, remaining, sweepIndex, returned >>

(***************************************************************************)
(* Lines 297-301: ideal[c] = requestedCount * weight[c] / totalWeight.     *)
(***************************************************************************)
ComputeIdeal ==
  /\ apc = "ideal"
  /\ UNCHANGED << detectVars, storeVars, paperVars, editorVars, renderVars >>
  /\ idealByCategory' =
       [c \in categoryOrder |-> requestedCount * requestedWeightByCategory[c]]
  /\ apc' = "floor"
  /\ UNCHANGED << availableByCategory, ratioInputs, requestedCount,
                  requestedWeightByCategory, totalWeight, allocatedByCategory,
                  remaining, sweepIndex, thrown, returned >>

(***************************************************************************)
(* Lines 303-314: allocated[c] = min(available, floor(ideal)), remaining.  *)
(***************************************************************************)
(* Variant: the share is rounded up instead of down. *)
FloorShare_RoundUp(c) ==
  Min(availableByCategory[c], FloorDiv(idealByCategory[c] + totalWeight - 1, totalWeight))

(* Variant: the floor share is not capped by the availability. *)
FloorShare_NoCap(c) == FloorDiv(idealByCategory[c], totalWeight)

FloorShare(c) ==
  Min(availableByCategory[c], FloorDiv(idealByCategory[c], totalWeight))

FloorAllocate ==
  /\ apc = "floor"
  /\ UNCHANGED << detectVars, storeVars, paperVars, editorVars, renderVars >>
  /\ LET a == [c \in categoryOrder |-> FloorShare(c)]
     IN /\ allocatedByCategory' = a
        /\ remaining' = requestedCount - SumSeq(a)
  /\ apc' = "greedy"
  /\ UNCHANGED << availableByCategory, ratioInputs, requestedCount,
                  requestedWeightByCategory, totalWeight, idealByCategory,
                  sweepIndex, thrown, returned >>

(***************************************************************************)
(* Lines 317-332: the selection loop of one greedy round.  score is        *)
(* ideal - allocated, held as a numerator over totalWeight; best = 0 is    *)
(* selectedCategory = null with bestScore = -Infinity.                     *)
(***************************************************************************)
Score(c) == idealByCategory[c] - allocatedByCategory[c] * totalWeight

(* Variant: the capacity test is off by one. *)
HasSpare_OffByOne(c) == allocatedByCategory[c] <= availableByCategory[c]

HasSpare(c) == allocatedByCategory[c] < availableByCategory[c]

(* Variant: a later category wins an exact tie (>= instead of >). *)
ScoreBeats_LastWins(score, best, bestScore) == best = 0 \/ score >= bestScore

(* Variant: the smallest score is selected. *)
ScoreBeats_Smallest(score, best, bestScore) == best = 0 \/ score < bestScore

(* Variant: bestScore starts at 0, a score of 0 or less is never selected. *)
ScoreBeats_PositiveOnly(score, best, bestScore) ==
  score > (IF best = 0 THEN 0 ELSE bestScore)

ScoreBeats(score, best, bestScore) == best = 0 \/ score > bestScore

RECURSIVE SelectFrom(_, _, _)
SelectFrom(c, best, bestScore) ==
  IF c > Len(availableByCategory) THEN best
  ELSE IF ~HasSpare(c) THEN SelectFrom(c + 1, best, bestScore)
  ELSE IF ScoreBeats(Score(c), best, bestScore)
         THEN SelectFrom(c + 1, c, Score(c))
         ELSE SelectFrom(c + 1, best, bestScore)

selectedCategory == SelectFrom(1, 0, 0)

(***************************************************************************)
(* Lines 316-342: one iteration of while (remaining > 0).                  *)
(***************************************************************************)
GreedyRound ==
  /\ apc = "greedy"
  /\ UNCHANGED << detectVars, storeVars, paperVars, editorVars, renderVars >>
  /\ remaining > 0
  /\ selectedCategory # 0
  /\ allocatedByCategory' =
       [allocatedByCategory EXCEPT ![selectedCategory] = @ + 1]
  /\ remaining' = remaining - 1
  /\ UNCHANGED << availableByCategory, ratioInputs, requestedCount,
                  requestedWeightByCategory, totalWeight, idealByCategory,
                  sweepIndex, thrown, returned, apc >>

(* The while loop ends: remaining = 0, or the break of lines 334-336.      *)
GreedyExit ==
  /\ apc = "greedy"
  /\ UNCHANGED << detectVars, storeVars, paperVars, editorVars, renderVars >>
  /\ remaining <= 0 \/ selectedCategory = 0
  /\ apc' = IF remaining > 0 THEN "sweep" ELSE "finish"
  /\ sweepIndex' = 1
  /\ UNCHANGED << availableByCategory, ratioInputs, requestedCount,
                  requestedWeightByCategory, totalWeight, idealByCategory,
                  allocatedByCategory, remaining, thrown, returned >>

(***************************************************************************)
(* Lines 344-357: the final sweep, one category of the for-loop per step.  *)
(***************************************************************************)
SweepTopUp(c) == Min(remaining, Max(0, availableByCategory[c] - allocatedByCategory[c]))

SweepCategory ==
  /\ apc = "sweep"
  /\ UNCHANGED << detectVars, storeVars, paperVars, editorVars, renderVars >>
  /\ sweepIndex <= Len(availableByCategory)
  /\ remaining > 0
  /\ allocatedByCategory' =
       [allocatedByCategory EXCEPT ![sweepIndex] = @ + SweepTopUp(sweepIndex)]
  /\ remaining' = remaining - SweepTopUp(sweepIndex)
  /\ sweepIndex' = sweepIndex + 1
  /\ UNCHANGED << availableByCategory, ratioInputs, requestedCount,
                  requestedWeightByCategory, totalWeight, idealByCategory,
                  thrown, returned, apc >>

SweepExit ==
  /\ apc = "sweep"
  /\ UNCHANGED << detectVars, storeVars, paperVars, editorVars, renderVars >>
  /\ sweepIndex > Len(availableByCategory) \/ remaining <= 0
  /\ apc' = "finish"
  /\ UNCHANGED << availableByCategory, ratioInputs, requestedCount,
                  requestedWeightByCategory, totalWeight, idealByCategory,
                  allocatedByCategory, remaining, sweepIndex, thrown, returned >>

(***************************************************************************)
(* Lines 359-366: throw when units are left, else return the counts.       *)
(***************************************************************************)
Finish ==
  /\ apc = "finish"
  /\ UNCHANGED << detectVars, storeVars, paperVars, editorVars, renderVars >>
  /\ IF remaining > 0
       THEN /\ thrown' = NewError(AvailabilityErrorMessage)
            /\ returned' = returned
       ELSE /\ thrown' = thrown
            /\ returned' = [kind |-> "counts", counts |-> allocatedByCategory]
  /\ apc' = "done"
  /\ UNCHANGED << availableByCategory, ratioInputs, requestedCount,
                  requestedWeightByCategory, totalWeight, idealByCategory,
                  allocatedByCategory, remaining, sweepIndex >>

AllocNext ==
  \/ ParseWeights
  \/ ComputeIdeal
  \/ FloorAllocate
  \/ GreedyRound
  \/ GreedyExit
  \/ SweepCategory
  \/ SweepExit
  \/ Finish

(***************************************************************************)
(*                     Region suggestion pipeline                          *)
(*  detectSuggestionRects followed by normalizeSuggestionRects, as called  *)
(*  by runAutoSuggest.  Coordinates of DisplayRect are numbers; they are   *)
(*  held as integers in units of 1/Unit pixel.  The display sizes used     *)
(*  make every product with the ratios of the source (0.012, 0.14, ...)    *)
(*  and every scaling by displaySize/sourceSize exact in that unit.        *)
(***************************************************************************)
Unit == 100

MIN_BOX_DISPLAY_SIZE == 20

Rect(x, y, w, h) == [x |-> x, y |-> y, width |-> w, height |-> h]

(* size.width * ratio, ratio given in thousandths, in units *)
FrameRatio(sizePx, thousandths) == (sizePx * thousandths * Unit) \div 1000

IsFiniteRect(rect) ==
  rect.x \in Int /\ rect.y \in Int /\ rect.width \in Int /\ rect.height \in Int

(* Variant: only the size is clamped, the position is left as it is. *)
clampDisplayRect_SizeOnly(rect, size, minSize) ==
  LET maxWidth == Max(1, size.width) * Unit
      maxHeight == Max(1, size.height) * Unit
      minWidth == Min(minSize * Unit, maxWidth)
      minHeight == Min(minSize * Unit, maxHeight)
  IN Rect(rect.x, rect.y,
          Min(maxWidth, Max(minWidth, rect.width)),
          Min(maxHeight, Max(minHeight, rect.height)))

clampDisplayRect(rect, size, minSize) ==
  IF ~IsFiniteRect(rect)
    THEN Rect(0, 0,
              Max(1, Min(minSize, IF size.width = 0 THEN 1 ELSE size.width)) * Unit,
              Max(1, Min(minSize, IF size.height = 0 THEN 1 ELSE size.height)) * Unit)
    ELSE
      LET maxWidth == Max(1, size.width) * Unit
          maxHeight == Max(1, size.height) * Unit
          minWidth == Min(minSize * Unit, maxWidth)
          minHeight == Min(minSize * Unit, maxHeight)
          width == Min(maxWidth, Max(minWidth, rect.width))
          height == Min(maxHeight, Max(minHeight, rect.height))
          x == Min(maxWidth - width, Max(0, rect.x))
          y == Min(maxHeight - height, Max(0, rect.y))
      IN Rect(x, y, width, height)

rectArea(rect) == Max(0, rect.width) * Max(0, rect.height)

intersectionArea(a, b) ==
  LET left == Max(a.x, b.x)
      top == Max(a.y, b.y)
      right == Min(a.x + a.width, b.x + b.width)
      bottom == Min(a.y + a.height, b.y + b.height)
  IN IF right <= left \/ bottom <= top THEN 0
     ELSE (right - left) * (bottom - top)

(* getIoU(a, b) as the fraction overlap / union; 0 is <<0, 1>>. *)
getIoU(a, b) ==
  LET overlap == intersectionArea(a, b)
      union == rectArea(a) + (rectArea(b) - overlap)
  IN IF overlap <= 0 THEN <<0, 1>>
     ELSE IF union <= 0 THEN <<0, 1>>
     ELSE <<overlap, union>>

(* iou > n/d for a fraction iou = <<p, q>>, q > 0: p > floor(q * n / d) *)
FractionAbove(iou, n, d) ==
  iou[1] > n * (iou[2] \div d) + (n * (iou[2] % d)) \div d

(* Variant: the padded rect is returned without the re-clamp. *)
expandRect_NoClamp(rect, size) ==
  LET xPad == FrameRatio(size.width, 12)
      yPadTop == FrameRatio(size.height, 8)
      yPadBottom == FrameRatio(size.height, 16)
  IN Rect(rect.x - xPad, rect.y - yPadTop,
          rect.width + xPad * 2, rect.height + yPadTop + yPadBottom)

expandRect(rect, size) ==
  LET xPad == FrameRatio(size.width, 12)
      yPadTop == FrameRatio(size.height, 8)
      yPadBottom == FrameRatio(size.height, 16)
  IN clampDisplayRect(
       Rect(rect.x - xPad, rect.y - yPadTop,
            rect.width + xPad * 2, rect.height + yPadTop + yPadBottom),
       size, MIN_BOX_DISPLAY_SIZE)

(***************************************************************************)
(* Array.prototype.sort with a comparator.  Two comparators are used:      *)
(*   "exact"   (a.y === b.y ? a.x - b.x : a.y - b.y)            line 494   *)
(*   "reading" (|a.y - b.y| < size.height * 0.015 ? a.x - b.x : a.y - b.y) *)
(*                                                         lines 272, 310  *)
(* The reading comparator is not a consistent comparator on every list;    *)
(* the order is then implementation-defined.  The outcomes modelled are    *)
(* those of the two sort routines engines use for lists this short (the    *)
(* lists never exceed 40 elements): binary insertion after run detection,  *)
(* and linear insertion.  Both are stable and agree whenever the           *)
(* comparator is consistent on the list.                                   *)
(***************************************************************************)
Abs(n) == IF n < 0 THEN -n ELSE n

(* Variant: the row band is ignored, rows compare by y only. *)
compareRects_NoBand(kind, a, b, size) ==
  IF a.y = b.y THEN a.x - b.x ELSE a.y - b.y

(* Variant: inside a row band the rects run from right to left. *)
compareRects_BandDescending(kind, a, b, size) ==
  IF kind = "exact"
    THEN (IF a.y = b.y THEN a.x - b.x ELSE a.y - b.y)
    ELSE (IF Abs(a.y - b.y) < FrameRatio(size.height, 15) THEN b.x - a.x ELSE a.y - b.y)

compareRects(kind, a, b, size) ==
  IF kind = "exact"
    THEN (IF a.y = b.y THEN a.x - b.x ELSE a.y - b.y)
    ELSE (IF Abs(a.y - b.y) < FrameRatio(size.height, 15) THEN a.x - b.x ELSE a.y - b.y)

InsertAt(list, pos, item) ==
  SubSeq(list, 1, pos - 1) \o <<item>> \o SubSeq(list, pos, Len(list))

Reverse(list) == [i \in 1..Len(list) |-> list[Len(list) + 1 - i]]

(* linear insertion: position of item in the sorted prefix, scanning down *)
RECURSIVE LinearPosition(_, _, _, _, _)
LinearPosition(sorted, item, j, kind, size) ==
  IF j < 1 THEN 1
  ELSE IF compareRects(kind, sorted[j], item, size) <= 0 THEN j + 1
  ELSE LinearPosition(sorted, item, j - 1, kind, size)

RECURSIVE LinearInsertionSort(_, _, _, _)
LinearInsertionSort(sorted, rest, kind, size) ==
  IF rest = << >> THEN sorted
  ELSE LinearInsertionSort(
         InsertAt(sorted, LinearPosition(sorted, Head(rest), Len(sorted), kind, size), Head(rest)),
         Tail(rest), kind, size)

(* binary insertion: left = 0, right = start; indices here are 1-based *)
RECURSIVE BinaryPosition(_, _, _, _, _, _)
BinaryPosition(sorted, pivot, left, right, kind, size) ==
  IF left >= right THEN left + 1
  ELSE LET mid == left + ((right - left) \div 2)
       IN IF compareRects(kind, pivot, sorted[mid + 1], size) < 0
            THEN BinaryPosition(sorted, pivot, left, mid, kind, size)
            ELSE BinaryPosition(sorted, pivot, mid + 1, right, kind, size)

RECURSIVE BinaryInsertionSort(_, _, _, _)
BinaryInsertionSort(sorted, rest, kind, size) ==
  IF rest = << >> THEN sorted
  ELSE BinaryInsertionSort(
         InsertAt(sorted, BinaryPosition(sorted, Head(rest), 0, Len(sorted), kind, size), Head(rest)),
         Tail(rest), kind, size)

(* length of the initial run, list has at least 2 elements *)
RECURSIVE RunLength(_, _, _, _, _)
RunLength(list, idx, isDescending, kind, size) ==
  IF idx > Len(list) THEN idx - 1
  ELSE LET order == compareRects(kind, list[idx], list[idx - 1], size)
       IN IF isDescending
            THEN (IF order >= 0 THEN idx - 1 ELSE RunLength(list, idx + 1, isDescending, kind, size))
            ELSE (IF order < 0 THEN idx - 1 ELSE RunLength(list, idx + 1, isDescending, kind, size))

RunThenBinaryInsertionSort(list, kind, size) ==
  IF Len(list) < 2 THEN list
  ELSE LET isDescending == compareRects(kind, list[2], list[1], size) < 0
           run == RunLength(list, 3, isDescending, kind, size)
           head == IF isDescending THEN Reverse(SubSeq(list, 1, run)) ELSE SubSeq(list, 1, run)
       IN BinaryInsertionSort(head, SubSeq(list, run + 1, Len(list)), kind, size)

SortOutcomes(list, kind, size) ==
  { RunThenBinaryInsertionSort(list, kind, size),
    LinearInsertionSort(<< >>, list, kind, size) }

(* .slice(0, 40) *)
SUGGESTION_LIMIT == 40
SliceLimit(list) == SubSeq(list, 1, Min(Len(list), SUGGESTION_LIMIT))

(***************************************************************************)
(* The canvas.  image describes what drawImage puts on the working canvas  *)
(* of sourceWidth x sourceHeight pixels: a background colour and a list of *)
(* rectangles of pixels [x0, x1) x [y0, y1), later ones painted on top.    *)
(* Colours are RGB triples whose luma has at most one decimal, so that     *)
(* sums of luma are exact in tenths.                                       *)
(***************************************************************************)
White == <<255, 255, 255>>
Black == <<0, 0, 0>>
Brown == <<200, 100, 50>>
LightGrey == <<230, 230, 230>>

Block(x0, y0, x1, y1, colour) ==
  [x0 |-> x0, y0 |-> y0, x1 |-> x1, y1 |-> y1, colour |-> colour]

CELL == 8

(* a block covering the cells [cx0..cx1] x [cy0..cy1] *)
CellBlock(cx0, cy0, cx1, cy1, colour) ==
  Block(cx0 * CELL, cy0 * CELL, (cx1 + 1) * CELL, (cy1 + 1) * CELL, colour)

(* Math.round(n / d) for n >= 0, d > 0 *)
RoundDiv(n, d) == (2 * n + d) \div (2 * d)

SOURCE_MIN_WIDTH == 360
SOURCE_MAX_WIDTH == 1200
SOURCE_MIN_HEIGHT == 480

sourceWidthOf(size) == Max(SOURCE_MIN_WIDTH, Min(SOURCE_MAX_WIDTH, size.width))

sourceHeightOf(size) ==
  Max(SOURCE_MIN_HEIGHT, RoundDiv(size.height * sourceWidthOf(size), Max(1, size.width)))

ColourAt(img, x, y) ==
  LET hits == { i \in DOMAIN img.blocks :
                  /\ img.blocks[i].x0 <= x /\ x < img.blocks[i].x1
                  /\ img.blocks[i].y0 <= y /\ y < img.blocks[i].y1 }
  IN IF hits = {} THEN img.background
     ELSE img.blocks[CHOOSE i \in hits : \A j \in hits : j <= i].colour

(* (r * 299 + g * 587 + b * 114) / 1000, in tenths *)
Luma(rgb) == (rgb[1] * 299 + rgb[2] * 587 + rgb[3] * 114) \div 100

GrayAt(img, x, y) == Luma(ColourAt(img, x, y))

SAMPLE_STEP == 16

ColoursOf(img) == { img.background } \cup { img.blocks[i].colour : i \in DOMAIN img.blocks }

(* lines 341-348: the sum of gray over the pixels 0, 16, 32, ... *)
SampledGraySum(img, src) ==
  LET totalPixels == src.width * src.height
      samples == { k \in 0..(totalPixels - 1) : k % SAMPLE_STEP = 0 }
      colourOf(k) == ColourAt(img, k % src.width, k \div src.width)
      count(c) == Cardinality({ k \in samples : colourOf(k) = c })
      cs == ColoursOf(img)
      f[rest \in SUBSET cs] ==
        IF rest = {} THEN 0
        ELSE LET c == CHOOSE c \in rest : TRUE
             IN Luma(c) * count(c) + f[rest \ {c}]
  IN f[cs]

THRESHOLD_MIN == 80
THRESHOLD_MAX == 205

(* lines 349-351: Math.max(80, Math.min(205, meanGray * 0.82)) as a fraction
   of tenths; meanGray = graySum / sampledPixels *)
thresholdOf(sum, src) ==
  LET sampledPixels == Max(1, (src.width * src.height) \div SAMPLE_STEP)
      \* meanGray * 0.82 = (41 * sum) / (50 * sampledPixels) tenths
      n == 41 * sum
      d == 50 * sampledPixels
  IN IF n < THRESHOLD_MIN * 10 * d THEN <<THRESHOLD_MIN * 10, 1>>
     ELSE IF n > THRESHOLD_MAX * 10 * d THEN <<THRESHOLD_MAX * 10, 1>>
     ELSE <<n, d>>

colsOf(src) == src.width \div CELL
rowsOf(src) == src.height \div CELL

(* gray < threshold *)
IsDark(gray, thr) == gray * thr[2] < thr[1]

(* lines 361-378: number of dark pixels of cell (cx, cy) *)
DarkCount(img, src, thr, cx, cy) ==
  Cardinality({ p \in 0..(CELL * CELL - 1) :
                  IsDark(GrayAt(img, cx * CELL + (p % CELL), cy * CELL + (p \div CELL)), thr) })

(* Variant: a single dark pixel marks the cell. *)
IsInkCell_AnyDark(dark, count) == dark > 0

(* line 380: dark / Math.max(1, count) > 0.08 *)
IsInkCell(dark, count) == dark * 100 > 8 * Max(1, count)

(* lines 359-384 *)
maskOf(img, src, thr) ==
  { idx \in 0..(colsOf(src) * rowsOf(src) - 1) :
      IsInkCell(DarkCount(img, src, thr, idx % colsOf(src), idx \div colsOf(src)), CELL * CELL) }

(* lines 386-400: the 8-neighbourhood of every mask cell *)
dilatedOf(m, cols, rows) ==
  UNION { { ny * cols + nx :
              nx \in Max(0, (idx % cols) - 1)..Min(cols - 1, (idx % cols) + 1),
              ny \in Max(0, (idx \div cols) - 1)..Min(rows - 1, (idx \div cols) + 1) }
          : idx \in m }

(* lines 440-459: the 4 neighbours inside the grid *)
Neighbors(idx, cols, rows) ==
  LET cx == idx % cols
      cy == idx \div cols
  IN { ny * cols + nx :
         <<nx, ny>> \in { q \in { <<cx - 1, cy>>, <<cx + 1, cy>>, <<cx, cy - 1>>, <<cx, cy + 1>> } :
                            q[1] >= 0 /\ q[2] >= 0 /\ q[1] < cols /\ q[2] < rows } }

(* lines 416-460: the cells reached by the breadth-first fill from a seed *)
RECURSIVE Fill(_, _, _, _, _)
Fill(frontier, seen, cells, cols, rows) ==
  IF frontier = {} THEN seen
  ELSE LET next == (UNION { Neighbors(idx, cols, rows) : idx \in frontier } \cap cells) \ seen
       IN Fill(next, seen \cup next, cells, cols, rows)

MIN_CELL_COUNT == 8
MIN_CELLS_WIDE == 3
MIN_CELLS_HIGH == 3

(* Variant: a component needs only 2 cells in each direction. *)
PassesFootprint_Loose(cellCount, widthCells, heightCells) ==
  ~(cellCount < 4 \/ widthCells < 2 \/ heightCells < 2)

(* lines 462-466 *)
PassesFootprint(cellCount, widthCells, heightCells) ==
  ~(cellCount < MIN_CELL_COUNT \/ widthCells < MIN_CELLS_WIDE \/ heightCells < MIN_CELLS_HIGH)

SetMin(S) == CHOOSE m \in S : \A n \in S : m <= n
SetMax(S) == CHOOSE m \in S : \A n \in S : m >= n

(* pixel * displaySize / sourceSize, in units *)
ScaleToDisplay(pixel, display, source) == (pixel * display * Unit) \div source

BOX_PAD == 1

(* lines 462-489: the display rect of a component *)
componentRect(component, size, src) ==
  LET cols == colsOf(src)
      minX == SetMin({ idx % cols : idx \in component })
      maxX == SetMax({ idx % cols : idx \in component })
      minY == SetMin({ idx \div cols : idx \in component })
      maxY == SetMax({ idx \div cols : idx \in component })
      widthCells == maxX - minX + 1
      heightCells == maxY - minY + 1
      pixelX == Max(0, (minX - BOX_PAD) * CELL)
      pixelY == Max(0, (minY - BOX_PAD) * CELL)
      pixelWidth == Min(src.width - pixelX, (widthCells + BOX_PAD * 2) * CELL)
      pixelHeight == Min(src.height - pixelY, (heightCells + BOX_PAD * 2) * CELL)
  IN IF ~PassesFootprint(Cardinality(component), widthCells, heightCells) THEN << >>
     ELSE << clampDisplayRect(
               Rect(ScaleToDisplay(pixelX, size.width, src.width),
                    ScaleToDisplay(pixelY, size.height, src.height),
                    ScaleToDisplay(pixelWidth, size.width, src.width),
                    ScaleToDisplay(pixelHeight, size.height, src.height)),
               size, MIN_BOX_DISPLAY_SIZE) >>

(***************************************************************************)
(* Inputs of the pipeline.                                                 *)
(***************************************************************************)
MaxBlocks == 2

DisplaySizes ==
  { [width |-> 360, height |-> 540],
    [width |-> 90, height |-> 120] }

BlockCatalogue ==
  << CellBlock(6, 6, 6, 10, Black),          \* vertical stroke
     CellBlock(6, 6, 8, 6, Black),           \* horizontal stroke joined to it
     CellBlock(4, 20, 30, 26, Brown),        \* paragraph
     CellBlock(24, 0, 44, 1, Black),         \* heading in the top right corner
     CellBlock(20, 40, 30, 45, LightGrey),   \* pale shading
     Block(100, 300, 102, 303, Black) >>     \* speck of 2 x 3 pixels

RECURSIVE SubSequences(_)
SubSequences(list) ==
  IF list = << >> THEN { << >> }
  ELSE LET rest == SubSequences(Tail(list))
       IN rest \cup { <<Head(list)>> \o r : r \in rest }

BoundedImages ==
  { [background |-> White, blocks |-> b] :
      b \in { q \in SubSequences(BlockCatalogue) : Len(q) <= MaxBlocks } }

BlankWhiteImage == [background |-> White, blocks |-> << >>]
BlankBlackImage == [background |-> Black, blocks |-> << >>]

(* two hook-shaped strokes that interlock without touching *)
InterlockedStrokesImage ==
  [background |-> White,
   blocks |-> << CellBlock(6, 6, 6, 10, Black), CellBlock(6, 6, 8, 6, Black),
                 CellBlock(12, 6, 12, 10, Black), CellBlock(10, 10, 12, 10, Black) >>]

(* two paragraphs separated by white space *)
TwoParagraphsImage ==
  [background |-> White,
   blocks |-> << CellBlock(4, 20, 30, 26, Brown), CellBlock(4, 32, 30, 38, Black) >>]

(* two blocks side by side, the right one starting one cell row higher *)
SideBySideImage ==
  [background |-> White,
   blocks |-> << CellBlock(30, 10, 36, 14, Black), CellBlock(5, 11, 11, 15, Black) >>]

(* 4 rows of 11 one-cell specks above a paragraph: 45 components *)
SpeckleFieldImage ==
  [background |-> White,
   blocks |->
     [k \in 1..44 |->
        CellBlock(1 + 4 * ((k - 1) % 11), 1 + 4 * ((k - 1) \div 11),
                  1 + 4 * ((k - 1) % 11), 1 + 4 * ((k - 1) \div 11), Black)]
     \o << CellBlock(4, 20, 30, 26, Brown) >>]

(* a corner stroke (right bar and bottom bar) with a short dash in the *)
(* opposite corner of its bounding box                                *)
CornerAndDashImage ==
  [background |-> White,
   blocks |-> << CellBlock(20, 6, 20, 16, Black), CellBlock(6, 16, 20, 16, Black),
                 CellBlock(6, 6, 8, 6, Black) >>]

(* a footer block in the bottom left corner of the page *)
FooterImage ==
  [background |-> White, blocks |-> << CellBlock(0, 56, 12, 66, Black) >>]

DarkGrey == <<70, 70, 70>>
MidGrey == <<128, 128, 128>>

(* pages of one colour: below the threshold floor, above it, with a block *)
(* painted in the colour of the page                                      *)
BlankDarkGreyImage == [background |-> DarkGrey, blocks |-> << >>]
BlankMidGreyImage == [background |-> MidGrey, blocks |-> << >>]
BlankShadedImage ==
  [background |-> LightGrey, blocks |-> << CellBlock(20, 40, 30, 45, LightGrey) >>]

(* three blocks stepping down one cell row at a time from right to left *)
StaggeredBlocksImage ==
  [background |-> White,
   blocks |-> << CellBlock(30, 10, 32, 12, Black), CellBlock(20, 11, 22, 13, Black),
                 CellBlock(10, 12, 12, 14, Black) >>]

NamedImages ==
  { BlankWhiteImage, BlankBlackImage, InterlockedStrokesImage, TwoParagraphsImage,
    StaggeredBlocksImage, SideBySideImage, SpeckleFieldImage, CornerAndDashImage,
    FooterImage,
    BlankDarkGreyImage, BlankMidGreyImage, BlankShadedImage }

Images == BoundedImages \cup NamedImages

(* what the canvas does: "noContext" getContext returns null (line 327),   *)
(* "drawFails" drawImage throws (line 332, an image in the broken state),   *)
(* "tainted" getImageData throws (line 335)                                *)
Surfaces == { "ok", "noContext", "drawFails", "tainted" }

NoSize == [width |-> 0, height |-> 0]

DetectInit ==
  /\ displaySize \in DisplaySizes
  /\ image \in Images
  /\ surface \in Surfaces
  /\ sourceSize = NoSize
  /\ graySum = 0
  /\ threshold = <<0, 1>>
  /\ mask = {}
  /\ dilated = {}
  /\ visited = {}
  /\ boxes = << >>
  /\ rawRects = << >>
  /\ filtered = << >>
  /\ mergeIndex = 0
  /\ merged = << >>
  /\ normalizedRects = << >>
  /\ dpc = "start"

(* lines 318-338: size the canvas, get the context, draw and read the pixels *)
DetectStart ==
  /\ dpc = "start"
  /\ UNCHANGED << allocVars, storeVars, paperVars, editorVars, renderVars >>
  /\ sourceSize' = [width |-> sourceWidthOf(displaySize), height |-> sourceHeightOf(displaySize)]
  /\ IF surface = "ok"
       THEN dpc' = "sample" /\ rawRects' = rawRects
       ELSE IF surface = "drawFails"
         \* line 332 is outside the try block: the exception leaves the function
         THEN dpc' = "thrown" /\ rawRects' = rawRects
         ELSE dpc' = "normalize" /\ rawRects' = << >>
  /\ UNCHANGED << displaySize, image, surface, graySum, threshold, mask, dilated, visited,
                  boxes, filtered, mergeIndex, merged, normalizedRects >>

(* lines 339-351 *)
SampleLuminance ==
  /\ dpc = "sample"
  /\ UNCHANGED << allocVars, storeVars, paperVars, editorVars, renderVars >>
  /\ LET sum == SampledGraySum(image, sourceSize)
     IN /\ graySum' = sum
        /\ threshold' = thresholdOf(sum, sourceSize)
  /\ dpc' = "mask"
  /\ UNCHANGED << displaySize, image, surface, sourceSize, mask, dilated, visited,
                  boxes, rawRects, filtered, mergeIndex, merged, normalizedRects >>

(* lines 353-384 *)
BuildMask ==
  /\ dpc = "mask"
  /\ UNCHANGED << allocVars, storeVars, paperVars, editorVars, renderVars >>
  /\ mask' = maskOf(image, sourceSize, threshold)
  /\ dpc' = "dilate"
  /\ UNCHANGED << displaySize, image, surface, sourceSize, graySum, threshold, dilated,
                  visited, boxes, rawRects, filtered, mergeIndex, merged, normalizedRects >>

(* lines 386-407 *)
Dilate ==
  /\ dpc = "dilate"
  /\ UNCHANGED << allocVars, storeVars, paperVars, editorVars, renderVars >>
  /\ dilated' = dilatedOf(mask, colsOf(sourceSize), rowsOf(sourceSize))
  /\ visited' = {}
  /\ boxes' = << >>
  /\ dpc' = "fill"
  /\ UNCHANGED << displaySize, image, surface, sourceSize, graySum, threshold, mask,
                  rawRects, filtered, mergeIndex, merged, normalizedRects >>

(* lines 409-491: the scan reaches the next unvisited cell of the dilated
   mask, fills its component and pushes its box when it is large enough *)
FloodFill ==
  /\ dpc = "fill"
  /\ UNCHANGED << allocVars, storeVars, paperVars, editorVars, renderVars >>
  /\ dilated \ visited # {}
  /\ LET startIndex == SetMin(dilated \ visited)
         component == Fill({startIndex}, {startIndex}, dilated,
                           colsOf(sourceSize), rowsOf(sourceSize))
     IN /\ visited' = visited \cup component
        /\ boxes' = boxes \o componentRect(component, displaySize, sourceSize)
  /\ UNCHANGED << displaySize, image, surface, sourceSize, graySum, threshold, mask,
                  dilated, rawRects, filtered, mergeIndex, merged, normalizedRects, dpc >>

(* lines 493-495 *)
DetectReturn ==
  /\ dpc = "fill"
  /\ UNCHANGED << allocVars, storeVars, paperVars, editorVars, renderVars >>
  /\ dilated \ visited = {}
  /\ \E sorted \in SortOutcomes(boxes, "exact", displaySize) :
       rawRects' = SliceLimit(sorted)
  /\ dpc' = "normalize"
  /\ UNCHANGED << displaySize, image, surface, sourceSize, graySum, threshold, mask,
                  dilated, visited, boxes, filtered, mergeIndex, merged, normalizedRects >>

(* Variant: only the lower size bounds are tested. *)
PlausibleSize_NoUpperBound(rect, size) ==
  /\ rect.width >= FrameRatio(size.width, 140)
  /\ rect.height >= FrameRatio(size.height, 35)

(* lines 258-271: the size test of the filter *)
PlausibleSize(rect, size) ==
  /\ rect.width >= FrameRatio(size.width, 140)
  /\ rect.height >= FrameRatio(size.height, 35)
  /\ rect.width <= FrameRatio(size.width, 970)
  /\ rect.height <= FrameRatio(size.height, 820)

(* lines 263-272 *)
NormalizeFilter ==
  /\ dpc = "normalize"
  /\ UNCHANGED << allocVars, storeVars, paperVars, editorVars, renderVars >>
  /\ LET clamped == [i \in DOMAIN rawRects |->
                       clampDisplayRect(rawRects[i], displaySize, MIN_BOX_DISPLAY_SIZE)]
         keep(rect) == PlausibleSize(rect, displaySize)
     IN filtered' \in SortOutcomes(SelectSeq(clamped, keep), "reading", displaySize)
  /\ merged' = << >>
  /\ mergeIndex' = 1
  /\ dpc' = "merge"
  /\ UNCHANGED << displaySize, image, surface, sourceSize, graySum, threshold, mask,
                  dilated, visited, boxes, rawRects, normalizedRects >>

CONTAINS_SLACK == 2
MERGE_IOU_PERCENT == 32

(* lines 280-284 *)
containsRect(base, rect) ==
  /\ rect.x >= base.x - CONTAINS_SLACK * Unit
  /\ rect.y >= base.y - CONTAINS_SLACK * Unit
  /\ rect.x + rect.width <= base.x + base.width + CONTAINS_SLACK * Unit
  /\ rect.y + rect.height <= base.y + base.height + CONTAINS_SLACK * Unit

(* Variant: the overlap test is inverted, rects that overlap little merge. *)
ShouldMerge_Inverted(base, rect) ==
  ~FractionAbove(getIoU(base, rect), MERGE_IOU_PERCENT, 100) \/ containsRect(base, rect)

(* line 285 *)
ShouldMerge(base, rect) ==
  FractionAbove(getIoU(base, rect), MERGE_IOU_PERCENT, 100) \/ containsRect(base, rect)

(* lines 286-298 *)
unionRect(base, rect, size) ==
  LET left == Min(base.x, rect.x)
      top == Min(base.y, rect.y)
      right == Max(base.x + base.width, rect.x + rect.width)
      bottom == Max(base.y + base.height, rect.y + rect.height)
  IN clampDisplayRect(Rect(left, top, right - left, bottom - top), size, MIN_BOX_DISPLAY_SIZE)

(* lines 275-306: one iteration of for (const rect of filtered) *)
MergeStep ==
  /\ dpc = "merge"
  /\ UNCHANGED << allocVars, storeVars, paperVars, editorVars, renderVars >>
  /\ mergeIndex <= Len(filtered)
  /\ LET rect == filtered[mergeIndex]
         matches == { i \in DOMAIN merged : ShouldMerge(merged[i], rect) }
     IN merged' = IF matches = {} THEN Append(merged, rect)
                  ELSE [merged EXCEPT ![SetMin(matches)] = unionRect(@, rect, displaySize)]
  /\ mergeIndex' = mergeIndex + 1
  /\ UNCHANGED << displaySize, image, surface, sourceSize, graySum, threshold, mask,
                  dilated, visited, boxes, rawRects, filtered, normalizedRects, dpc >>

(* lines 308-311 *)
NormalizeFinish ==
  /\ dpc = "merge"
  /\ UNCHANGED << allocVars, storeVars, paperVars, editorVars, renderVars >>
  /\ mergeIndex > Len(filtered)
  /\ LET expanded == [i \in DOMAIN merged |-> expandRect(merged[i], displaySize)]
     IN \E sorted \in SortOutcomes(expanded, "reading", displaySize) :
          normalizedRects' = SliceLimit(sorted)
  /\ dpc' = "done"
  /\ UNCHANGED << displaySize, image, surface, sourceSize, graySum, threshold, mask,
                  dilated, visited, boxes, rawRects, filtered, mergeIndex, merged >>

DetectNext ==
  \/ DetectStart
  \/ SampleLuminance
  \/ BuildMask
  \/ Dilate
  \/ FloodFill
  \/ DetectReturn
  \/ NormalizeFilter
  \/ MergeStep
  \/ NormalizeFinish

(***************************************************************************)
(* The question store (src/lib/firebase/questions.ts): the documents of    *)
(* the questions collection that belong to the exam at hand.  A document   *)
(* id is ${examId}_${pageNo}_${qNo}, or ${examId}_${qNo} for documents     *)
(* written before pages were part of the id.  A field that is missing or   *)
(* not a positive number is 0 (toPositiveInt gives null for both).  The    *)
(* client-side savedAt of a snapshot is left out.  Every exported function *)
(* is one action; serverTimestamp() grows with every write.                *)
(***************************************************************************)
MaxPage == 2
MaxQNo == 2
MaxWrites == 3

Pages == 1..MaxPage
QNos == 1..MaxQNo

REVIEW_STATUSES == {"draft", "reviewed", "done"}

(* lines 80-83, and the ?? that follows its uses *)
toPositiveInt(value) == IF value > 0 THEN value ELSE 0
OrElse(value, fallback) == IF value = 0 THEN fallback ELSE value

(* lines 90-95 *)
normalizeReviewStatus(value) ==
  IF value = "reviewed" \/ value = "done" THEN value ELSE "draft"

(* lines 97-105 *)
reviewStatusRank(status) ==
  IF status = "done" THEN 3 ELSE IF status = "reviewed" THEN 2 ELSE 1

Part(order, pageNo, rect) == [order |-> order, pageNo |-> pageNo, rect |-> rect]

(* lines 139-172: stored parts are well formed up to a missing pageNo *)
normalizeParts(parts, fallbackPageNo) ==
  [i \in DOMAIN parts |->
     Part(parts[i].order, OrElse(toPositiveInt(parts[i].pageNo), fallbackPageNo), parts[i].rect)]

Snapshot(pageNo, parts, reviewStatus) ==
  [pageNo |-> pageNo, parts |-> parts, reviewStatus |-> reviewStatus]

(* lines 174-189; no snapshot is << >>, a snapshot s is <<s>> *)
normalizeSnapshot(value, fallbackPageNo) ==
  IF value = << >> THEN << >>
  ELSE LET pageNo == OrElse(toPositiveInt(value[1].pageNo), fallbackPageNo)
       IN << Snapshot(pageNo, normalizeParts(value[1].parts, pageNo),
                      normalizeReviewStatus(value[1].reviewStatus)) >>

(* lines 211-223 *)
toStoredParts(parts) ==
  [i \in DOMAIN parts |-> Part(i, parts[i].pageNo, parts[i].rect)]

(* lines 225-232 *)
toStoredSnapshot(snapshot) ==
  Snapshot(snapshot.pageNo, toStoredParts(snapshot.parts), snapshot.reviewStatus)

(* lines 234-236: a normalized rect is at least 1 x 1 *)
hasMeaningfulParts(parts) == parts # << >>

(* lines 238-243 *)
shiftPageNoIfNeeded(pageNo, deletedPageNo) ==
  IF pageNo > deletedPageNo THEN pageNo - 1 ELSE pageNo

(* lines 245-250 *)
shiftPartsPageNos(parts, deletedPageNo) ==
  [i \in DOMAIN parts |->
     Part(parts[i].order, shiftPageNoIfNeeded(parts[i].pageNo, deletedPageNo), parts[i].rect)]

(* lines 252-264 *)
shiftSnapshotPageNos(snapshot, deletedPageNo) ==
  IF snapshot = << >> THEN << >>
  ELSE << Snapshot(shiftPageNoIfNeeded(snapshot[1].pageNo, deletedPageNo),
                   shiftPartsPageNos(snapshot[1].parts, deletedPageNo),
                   snapshot[1].reviewStatus) >>

(* lines 266-272 *)
questionDocId(pageNo, qNo) == [kind |-> "page", pageNo |-> pageNo, qNo |-> qNo]
legacyQuestionDocId(qNo) == [kind |-> "legacy", pageNo |-> 0, qNo |-> qNo]

Doc(pageNo, qNo, parts, reviewStatus, previousSnapshot, updatedAt) ==
  [pageNo |-> pageNo, qNo |-> qNo, parts |-> parts, reviewStatus |-> reviewStatus,
   previousSnapshot |-> previousSnapshot, updatedAt |-> updatedAt]

EmptyStore == [id \in {} |-> 0]

SetDoc(store, ref, data) ==
  [id \in (DOMAIN store) \cup {ref} |-> IF id = ref THEN data ELSE store[id]]

DeleteDoc(store, ref) == [id \in (DOMAIN store) \ {ref} |-> store[id]]

(* getDocs returns the documents in the order of their names; with       *)
(* one-digit numbers E_q < E_q_n < E_r_n for q < r                       *)
NameRank(ref) ==
  IF ref.kind = "legacy" THEN ref.qNo * 100 ELSE ref.pageNo * 100 + 10 + ref.qNo

RECURSIVE InNameOrder(_)
InNameOrder(refs) ==
  IF refs = {} THEN << >>
  ELSE LET first == CHOOSE r \in refs : \A o \in refs : NameRank(r) <= NameRank(o)
       IN << first >> \o InNameOrder(refs \ {first})

QueryDocs(store) == InNameOrder(DOMAIN store)

(* lines 279-324; << >> is null *)
findQuestionDocByPageAndQNo(store, pageNo, qNo) ==
  LET preferredRef == questionDocId(pageNo, qNo)
      legacyRef == legacyQuestionDocId(qNo)
      matches(ref) == /\ toPositiveInt(store[ref].pageNo) = pageNo
                      /\ toPositiveInt(store[ref].qNo) = qNo
      scan == SelectSeq(QueryDocs(store), matches)
  IN IF preferredRef \in DOMAIN store THEN << preferredRef >>
     ELSE IF /\ legacyRef \in DOMAIN store
             /\ OrElse(toPositiveInt(store[legacyRef].pageNo), pageNo) = pageNo
       THEN << legacyRef >>
     ELSE IF scan # << >> THEN << scan[1] >>
     ELSE << >>

(* lines 326-350 *)
fetchQuestionRecord(store, qNo, fallbackPageNo) ==
  LET matched == findQuestionDocByPageAndQNo(store, fallbackPageNo, qNo)
  IN IF matched = << >> THEN << >>
     ELSE LET data == store[matched[1]]
              pageNo == OrElse(toPositiveInt(data.pageNo), fallbackPageNo)
          IN << [qNo |-> qNo, pageNo |-> pageNo,
                 parts |-> normalizeParts(data.parts, pageNo),
                 reviewStatus |-> normalizeReviewStatus(data.reviewStatus),
                 previousSnapshot |-> normalizeSnapshot(data.previousSnapshot, pageNo)] >>

(* lines 352-393 *)
saveQuestionRecord(store, time, record) ==
  LET ref == questionDocId(record.pageNo, record.qNo)
      current == findQuestionDocByPageAndQNo(store, record.pageNo, record.qNo)
      previousSnapshot ==
        IF current = << >> THEN << >>
        ELSE LET currentData == store[current[1]]
                 currentPageNo == OrElse(toPositiveInt(currentData.pageNo), record.pageNo)
             IN << Snapshot(currentPageNo, normalizeParts(currentData.parts, currentPageNo),
                            normalizeReviewStatus(currentData.reviewStatus)) >>
      written ==
        SetDoc(store, ref,
               Doc(record.pageNo, record.qNo, toStoredParts(record.parts), record.reviewStatus,
                   IF previousSnapshot = << >> THEN << >>
                   ELSE << toStoredSnapshot(previousSnapshot[1]) >>,
                   time + 1))
  IN [store |-> IF current # << >> /\ current[1] # ref
                  THEN DeleteDoc(written, current[1]) ELSE written,
      hasPreviousSnapshot |-> previousSnapshot # << >>]

(* Variant: the record keeps its previous snapshot instead of taking the *)
(* replaced content as the new one.                                      *)
restoreQuestionPreviousSnapshot_KeepsSnapshot(store, time, qNo, fallbackPageNo) ==
  LET current == findQuestionDocByPageAndQNo(store, fallbackPageNo, qNo)
      unchanged == [store |-> store, time |-> time, result |-> << >>]
  IN IF current = << >> THEN unchanged
     ELSE
       LET ref == questionDocId(fallbackPageNo, qNo)
           data == store[current[1]]
           currentPageNo == OrElse(toPositiveInt(data.pageNo), fallbackPageNo)
           currentParts == normalizeParts(data.parts, currentPageNo)
           currentReviewStatus == normalizeReviewStatus(data.reviewStatus)
           previousSnapshot == normalizeSnapshot(data.previousSnapshot, currentPageNo)
       IN IF previousSnapshot = << >> THEN unchanged
          ELSE
            LET restoredParts == toStoredParts(previousSnapshot[1].parts)
                swappedPreviousSnapshot ==
                  Snapshot(currentPageNo, currentParts, currentReviewStatus)
                written ==
                  SetDoc(store, ref,
                         Doc(previousSnapshot[1].pageNo, qNo, toStoredParts(restoredParts),
                             previousSnapshot[1].reviewStatus,
                             data.previousSnapshot, time + 1))
            IN [store |-> IF current[1] # ref THEN DeleteDoc(written, current[1]) ELSE written,
                time |-> time + 1,
                result |-> << [qNo |-> qNo, pageNo |-> previousSnapshot[1].pageNo,
                               parts |-> restoredParts,
                               reviewStatus |-> previousSnapshot[1].reviewStatus,
                               previousSnapshot |-> << swappedPreviousSnapshot >>] >>]

(* lines 417-476; result << >> is null *)
restoreQuestionPreviousSnapshot(store, time, qNo, fallbackPageNo) ==
  LET current == findQuestionDocByPageAndQNo(store, fallbackPageNo, qNo)
      unchanged == [store |-> store, time |-> time, result |-> << >>]
  IN IF current = << >> THEN unchanged
     ELSE
       LET ref == questionDocId(fallbackPageNo, qNo)
           data == store[current[1]]
           currentPageNo == OrElse(toPositiveInt(data.pageNo), fallbackPageNo)
           currentParts == normalizeParts(data.parts, currentPageNo)
           currentReviewStatus == normalizeReviewStatus(data.reviewStatus)
           previousSnapshot == normalizeSnapshot(data.previousSnapshot, currentPageNo)
       IN IF previousSnapshot = << >> THEN unchanged
          ELSE
            LET restoredParts == toStoredParts(previousSnapshot[1].parts)
                swappedPreviousSnapshot ==
                  Snapshot(currentPageNo, currentParts, currentReviewStatus)
                written ==
                  SetDoc(store, ref,
                         Doc(previousSnapshot[1].pageNo, qNo, toStoredParts(restoredParts),
                             previousSnapshot[1].reviewStatus,
                             << toStoredSnapshot(swappedPreviousSnapshot) >>, time + 1))
            IN [store |-> IF current[1] # ref THEN DeleteDoc(written, current[1]) ELSE written,
                time |-> time + 1,
                result |-> << [qNo |-> qNo, pageNo |-> previousSnapshot[1].pageNo,
                               parts |-> restoredParts,
                               reviewStatus |-> previousSnapshot[1].reviewStatus,
                               previousSnapshot |-> << swappedPreviousSnapshot >>] >>]

(* Array.prototype.sort((a, b) => a.qNo - b.qNo): a consistent comparator, *)
(* the sort is stable                                                      *)
RECURSIVE SortByQNo(_)
SortByQNo(rows) ==
  IF rows = << >> THEN << >>
  ELSE LET least == SetMin({ rows[i].qNo : i \in DOMAIN rows })
           at == SetMin({ i \in DOMAIN rows : rows[i].qNo = least })
       IN << rows[at] >>
          \o SortByQNo(SubSeq(rows, 1, at - 1) \o SubSeq(rows, at + 1, Len(rows)))

(* lines 523-540: the loop over after *)
RECURSIVE ShiftRows(_, _, _, _)
ShiftRows(store, time, after, pageNo) ==
  IF after = << >> THEN [store |-> store, time |-> time]
  ELSE LET item == Head(after)
           newQNo == item.qNo - 1
           targetRef == questionDocId(pageNo, newQNo)
           written == SetDoc(store, targetRef,
                             [item.data EXCEPT !.pageNo = pageNo, !.qNo = newQNo,
                                               !.updatedAt = time + 1])
       IN ShiftRows(IF item.ref # targetRef THEN DeleteDoc(written, item.ref) ELSE written,
                    time + 1, Tail(after), pageNo)

(* lines 478-547 *)
deleteQuestionAndShift(store, time, pageNo, qNo) ==
  LET onPage(ref) == /\ toPositiveInt(store[ref].pageNo) # 0
                     /\ toPositiveInt(store[ref].qNo) # 0
                     /\ toPositiveInt(store[ref].pageNo) = pageNo
      refs == SelectSeq(QueryDocs(store), onPage)
      docs == SortByQNo([i \in DOMAIN refs |->
                           [qNo |-> toPositiveInt(store[refs[i]].qNo), ref |-> refs[i],
                            data |-> store[refs[i]]]])
      isTarget(item) == item.qNo = qNo
      isAfter(item) == item.qNo > qNo
      target == SelectSeq(docs, isTarget)
      after == SortByQNo(SelectSeq(docs, isAfter))
  IN IF target = << >>
       THEN [store |-> store, time |-> time,
             result |-> [deleted |-> FALSE, shiftedCount |-> 0, nextQNo |-> Max(1, qNo)]]
       ELSE LET shifted == ShiftRows(DeleteDoc(store, target[1].ref), time, after, pageNo)
            IN [store |-> shifted.store, time |-> shifted.time,
                result |-> [deleted |-> TRUE, shiftedCount |-> Len(after),
                            nextQNo |-> IF Len(after) > 0 THEN qNo ELSE Max(1, qNo - 1)]]

(* lines 681-721: the loop over snap.docs; latest maps a key to its row *)
RECURSIVE DedupRows(_, _, _, _)
DedupRows(store, refs, includeStatuses, latest) ==
  IF refs = << >> THEN latest
  ELSE
    LET data == store[Head(refs)]
        recordPageNo == toPositiveInt(data.pageNo)
        qNo == toPositiveInt(data.qNo)
        reviewStatus == normalizeReviewStatus(data.reviewStatus)
        parts == normalizeParts(data.parts, recordPageNo)
        onPage == { i \in DOMAIN parts : parts[i].pageNo = recordPageNo }
        part == IF onPage # {} THEN parts[SetMin(onPage)] ELSE parts[1]
        row == [qNo |-> qNo, pageNo |-> recordPageNo, reviewStatus |-> reviewStatus,
                part |-> part, updatedAtMs |-> data.updatedAt]
        key == << recordPageNo, qNo >>
        skip == \/ recordPageNo = 0
                \/ qNo = 0
                \/ reviewStatus \notin includeStatuses
                \/ ~hasMeaningfulParts(parts)
        replaces ==
          \/ key \notin DOMAIN latest
          \/ row.updatedAtMs > latest[key].updatedAtMs
          \/ /\ row.updatedAtMs = latest[key].updatedAtMs
             /\ reviewStatusRank(row.reviewStatus) >= reviewStatusRank(latest[key].reviewStatus)
    IN DedupRows(store, Tail(refs), includeStatuses,
                 IF skip \/ ~replaces THEN latest
                 ELSE [k \in (DOMAIN latest) \cup {key} |-> IF k = key THEN row ELSE latest[k]])

(* sort((a, b) => a.pageNo === b.pageNo ? a.qNo - b.qNo : a.pageNo - b.pageNo) *)
(* on rows of distinct keys                                                    *)
RECURSIVE InKeyOrder(_)
InKeyOrder(keys) ==
  IF keys = {} THEN << >>
  ELSE LET first == CHOOSE k \in keys : \A o \in keys :
                      k[1] < o[1] \/ (k[1] = o[1] /\ k[2] <= o[2])
       IN << first >> \o InKeyOrder(keys \ {first})

(* lines 661-726; no or empty includeStatuses means every status *)
fetchExamQuestionCandidates(store, option) ==
  LET includeStatuses == IF option # {} THEN option ELSE REVIEW_STATUSES
      latestByKey == DedupRows(store, QueryDocs(store), includeStatuses, EmptyStore)
      keys == InKeyOrder(DOMAIN latestByKey)
  IN [i \in DOMAIN keys |->
        [qNo |-> latestByKey[keys[i]].qNo, pageNo |-> latestByKey[keys[i]].pageNo,
         reviewStatus |-> latestByKey[keys[i]].reviewStatus, part |-> latestByKey[keys[i]].part]]

(* lines 740-779: the loop over snap.docs, each document read from snap *)
RECURSIVE ShiftPages(_, _, _, _, _)
ShiftPages(snap, refs, deletedPageNo, store, counts) ==
  IF refs = << >> THEN [store |-> store, counts |-> counts]
  ELSE
    LET ref == Head(refs)
        data == snap[ref]
        recordPageNo == toPositiveInt(data.pageNo)
        parts == normalizeParts(data.parts, recordPageNo)
        shiftedParts == toStoredParts(shiftPartsPageNos(parts, deletedPageNo))
        previousSnapshot == normalizeSnapshot(data.previousSnapshot, recordPageNo)
        shiftedSnapshot == shiftSnapshotPageNos(previousSnapshot, deletedPageNo)
    IN IF recordPageNo = 0
         THEN ShiftPages(snap, Tail(refs), deletedPageNo, store, counts)
       ELSE IF recordPageNo = deletedPageNo
         THEN ShiftPages(snap, Tail(refs), deletedPageNo, DeleteDoc(store, ref),
                         [counts EXCEPT !.deletedCount = @ + 1])
       ELSE IF recordPageNo < deletedPageNo
         THEN ShiftPages(snap, Tail(refs), deletedPageNo, store, counts)
       ELSE ShiftPages(snap, Tail(refs), deletedPageNo,
                       SetDoc(store, ref,
                              [data EXCEPT
                                 !.pageNo = recordPageNo - 1,
                                 !.parts = toStoredParts(shiftedParts),
                                 !.reviewStatus = normalizeReviewStatus(data.reviewStatus),
                                 !.previousSnapshot =
                                    IF shiftedSnapshot = << >> THEN << >>
                                    ELSE << toStoredSnapshot(shiftedSnapshot[1]) >>,
                                 !.updatedAt = counts.time + 1]),
                       [counts EXCEPT !.shiftedCount = @ + 1, !.time = @ + 1])

(* lines 728-785 *)
deleteQuestionsByPageAndShift(store, time, deletedPageNo) ==
  ShiftPages(store, QueryDocs(store), deletedPageNo, store,
             [deletedCount |-> 0, shiftedCount |-> 0, time |-> time])

(***************************************************************************)
(* Calls on the store.                                                     *)
(***************************************************************************)
(* what the editor saves for a question of page pageNo: a first version *)
(* in draft, a second version that is done                               *)
InputSaves(pageNo) ==
  { [parts |-> << Part(1, pageNo, "A") >>, reviewStatus |-> "draft"],
    [parts |-> << Part(1, pageNo, "B") >>, reviewStatus |-> "done"] }

StatusFilters == { {}, {"done"} }

NoReply == [op |-> "none", pageNo |-> 0, qNo |-> 0, includeStatuses |-> {}, rows |-> << >>]

Reply(op, pageNo, qNo, includeStatuses, rows) ==
  [op |-> op, pageNo |-> pageNo, qNo |-> qNo, includeStatuses |-> includeStatuses, rows |-> rows]

(* a store holding a document of the old id scheme, question 1 on the page *)
(* after the last page edited here                                         *)
LegacyStore ==
  legacyQuestionDocId(1) :>
    Doc(MaxPage + 1, 1, << Part(1, MaxPage + 1, "B") >>, "done", << >>, 0)

(* what an earlier session left that saved question 1 of the last page and *)
(* then deleted page 1; its writes are older than any write made here      *)
PageDeletedStore ==
  LET saved == saveQuestionRecord(LegacyStore, 0,
                 [pageNo |-> MaxPage, qNo |-> 1, parts |-> << Part(1, MaxPage, "A") >>,
                  reviewStatus |-> "draft"]).store
      deleted == deleteQuestionsByPageAndShift(saved, 1, 1).store
  IN [ref \in DOMAIN deleted |-> [deleted[ref] EXCEPT !.updatedAt = 0]]

(* the collection when the session starts *)
InitialStores == { EmptyStore, LegacyStore, PageDeletedStore }

StoreInit ==
  /\ questions \in InitialStores
  /\ serverTime = 0
  /\ reply = NoReply

SaveQuestionRecord ==
  /\ serverTime < MaxWrites
  /\ UNCHANGED << allocVars, detectVars, paperVars, editorVars, renderVars >>
  /\ \E pageNo \in Pages, qNo \in QNos :
       \E input \in InputSaves(pageNo) :
         LET saved == saveQuestionRecord(questions, serverTime,
                        [pageNo |-> pageNo, qNo |-> qNo, parts |-> input.parts,
                         reviewStatus |-> input.reviewStatus])
         IN /\ questions' = saved.store
            /\ serverTime' = serverTime + 1
            /\ reply' = Reply("saveQuestionRecord", pageNo, qNo, {},
                              << [hasPreviousSnapshot |-> saved.hasPreviousSnapshot] >>)

RestoreQuestionPreviousSnapshot ==
  /\ serverTime < MaxWrites
  /\ UNCHANGED << allocVars, detectVars, paperVars, editorVars, renderVars >>
  /\ \E fallbackPageNo \in Pages, qNo \in QNos :
       LET restored == restoreQuestionPreviousSnapshot(questions, serverTime, qNo, fallbackPageNo)
       IN /\ questions' = restored.store
          /\ serverTime' = restored.time
          /\ reply' = Reply("restoreQuestionPreviousSnapshot", fallbackPageNo, qNo, {},
                            restored.result)

DeleteQuestionAndShift ==
  /\ UNCHANGED << allocVars, detectVars, paperVars, editorVars, renderVars >>
  /\ \E pageNo \in Pages, qNo \in QNos :
       LET done == deleteQuestionAndShift(questions, serverTime, pageNo, qNo)
       IN /\ done.time <= MaxWrites
          /\ questions' = done.store
          /\ serverTime' = done.time
          /\ reply' = Reply("deleteQuestionAndShift", pageNo, qNo, {}, << done.result >>)

DeleteQuestionsByPageAndShift ==
  /\ UNCHANGED << allocVars, detectVars, paperVars, editorVars, renderVars >>
  /\ \E deletedPageNo \in Pages :
       LET done == deleteQuestionsByPageAndShift(questions, serverTime, deletedPageNo)
       IN /\ done.counts.time <= MaxWrites
          /\ questions' = done.store
          /\ serverTime' = done.counts.time
          /\ reply' = Reply("deleteQuestionsByPageAndShift", deletedPageNo, 0, {},
                            << [deletedCount |-> done.counts.deletedCount,
                                shiftedCount |-> done.counts.shiftedCount] >>)

FetchQuestionRecord ==
  /\ UNCHANGED << allocVars, detectVars, paperVars, editorVars, renderVars >>
  /\ \E fallbackPageNo \in Pages, qNo \in QNos :
       reply' = Reply("fetchQuestionRecord", fallbackPageNo, qNo, {},
                      fetchQuestionRecord(questions, qNo, fallbackPageNo))
  /\ UNCHANGED << questions, serverTime >>

FetchExamQuestionCandidates ==
  /\ UNCHANGED << allocVars, detectVars, paperVars, editorVars, renderVars >>
  /\ \E option \in StatusFilters :
       reply' = Reply("fetchExamQuestionCandidates", 0, 0, option,
                      fetchExamQuestionCandidates(questions, option))
  /\ UNCHANGED << questions, serverTime >>

StoreNext ==
  \/ SaveQuestionRecord
  \/ RestoreQuestionPreviousSnapshot
  \/ DeleteQuestionAndShift
  \/ DeleteQuestionsByPageAndShift
  \/ FetchQuestionRecord
  \/ FetchExamQuestionCandidates

(***************************************************************************)
(* generatePaper (src/app/admin/papers/create/page.tsx, lines 716-834):    *)
(* the candidates of the selected exam are grouped into one bucket per     *)
(* page category, the allocator gives a count per bucket, every bucket is  *)
(* shuffled and cut to its count, the selection is shuffled again and      *)
(* rendered.  The category names are written by the page policy of the     *)
(* exam: genetics, general biology, or none (shown as uncategorized).      *)
(***************************************************************************)
MaxPoolPages == 2
MaxPerPage == 2

GENETICS_CATEGORY == "genetics"
GENERAL_BIOLOGY_CATEGORY == "general biology"
UNCATEGORIZED == "uncategorized"

CategoryInputs == { GENETICS_CATEGORY, GENERAL_BIOLOGY_CATEGORY, "" }

(* lines 188-191: trim, and the fallback name of an empty category *)
normalizeCategoryName(value) == IF value = "" THEN UNCATEGORIZED ELSE value

(* lines 193-196: pageConfigs[pageNo - 1]?.category ?? "" *)
resolveCandidateCategory(configs, pageNo) ==
  normalizeCategoryName(IF pageNo \in DOMAIN configs THEN configs[pageNo] ELSE "")

(* lines 553-561: genetics first, the other names by localeCompare *)
CategoryRank(category) ==
  IF category = GENETICS_CATEGORY THEN 0
  ELSE IF category = UNCATEGORIZED THEN 1
  ELSE 2

Candidate(pageNo, qNo) == [pageNo |-> pageNo, qNo |-> qNo]

(* lines 535-562 *)
candidateBuckets ==
  LET categoryOf(candidate) == resolveCandidateCategory(pageConfigs, candidate.pageNo)
      present == { categoryOf(questionCandidates[i]) : i \in DOMAIN questionCandidates }
      bucket(category) ==
        [category |-> category,
         candidates |-> SelectSeq(questionCandidates, LAMBDA c : categoryOf(c) = category)]
      byRank[r \in 0..3] ==
        IF r = 3 THEN << >>
        ELSE LET here == { c \in present : CategoryRank(c) = r }
             IN (IF here = {} THEN << >> ELSE << bucket(CHOOSE c \in here : TRUE) >>)
                \o byRank[r + 1]
  IN byRank[0]

(* Variant: the element at i is overwritten and the one at j is kept. *)
SwapItems_Overwrite(items, i, j) == [items EXCEPT ![i] = items[j]]

(* lines 389-391 *)
SwapItems(items, i, j) == [items EXCEPT ![i] = items[j], ![j] = items[i]]

(* lines 385-394: every result of the loop for i = length - 1 down to 1,
   j = Math.floor(Math.random() * (i + 1)); positions are counted from 1 *)
RECURSIVE ShuffleFrom(_, _)
ShuffleFrom(next, i) ==
  IF i < 2 THEN { next }
  ELSE UNION { ShuffleFrom(SwapItems(next, i, j), i - 1) : j \in 1..i }

shuffleInPlace(items) == ShuffleFrom(items, Len(items))

(* Array.prototype.slice(0, count) *)
SliceTo(items, count) == SubSeq(items, 1, Min(Len(items), Max(0, count)))

CountErrorMessage == "the number of questions must be at least 1"
PoolErrorMessage == "requested count exceeds the available questions"
BucketErrorMessage == "no candidates per category"
LoadErrorMessage == "failed to load a page image"
EmptyPaperMessage == "no question image could be made"
NoMessage == ""

RatioChoices == { EmptyText, NumericText(40), NumericText(60) }

(* the candidates of fetchExamQuestionCandidates: one per key, in key order *)
CandidatePools ==
  { LET onPage(p) == [q \in 1..count[p] |-> Candidate(p, q)]
        all[p \in 1..(MaxPoolPages + 1)] ==
          IF p > MaxPoolPages THEN << >> ELSE onPage(p) \o all[p + 1]
    IN all[1] : count \in [1..MaxPoolPages -> 0..MaxPerPage] }

PresentCategories(pool, configs) ==
  { resolveCandidateCategory(configs, pool[i].pageNo) : i \in DOMAIN pool }

PaperInit ==
  /\ questionCandidates \in CandidatePools
  /\ pageConfigs \in UNION { [1..n -> CategoryInputs] : n \in 0..MaxPoolPages }
  /\ categoryRatioInputs \in
       [PresentCategories(questionCandidates, pageConfigs) -> RatioChoices]
  /\ questionCountInput \in 0..MaxReq
  /\ bucketIndex = 0
  /\ selectedCandidates = << >>
  /\ randomizedSelectedCandidates = << >>
  /\ renderedQuestions = << >>
  /\ errorMessage = NoMessage
  /\ downloadItem = << >>
  /\ gpc = "start"

(* lines 716-747: the checks, then the call of the allocator *)
GenerateStart ==
  /\ gpc = "start"
  /\ UNCHANGED << detectVars, storeVars, editorVars, renderVars >>
  /\ LET n == toPositiveInt(questionCountInput)
         failWith(msg) ==
           /\ errorMessage' = msg
           /\ gpc' = "done"
           /\ UNCHANGED allocVars
     IN IF n = 0 THEN failWith(CountErrorMessage)
        ELSE IF n > Len(questionCandidates) THEN failWith(PoolErrorMessage)
        ELSE IF Len(candidateBuckets) < 1 THEN failWith(BucketErrorMessage)
        ELSE /\ errorMessage' = NoMessage
             /\ gpc' = "allocate"
             /\ availableByCategory' =
                  [c \in DOMAIN candidateBuckets |-> Len(candidateBuckets[c].candidates)]
             /\ ratioInputs' =
                  [c \in DOMAIN candidateBuckets |->
                     categoryRatioInputs[candidateBuckets[c].category]]
             /\ requestedCount' = n
             /\ requestedWeightByCategory' = Unset
             /\ totalWeight' = 0
             /\ idealByCategory' = Unset
             /\ allocatedByCategory' = Unset
             /\ remaining' = 0
             /\ sweepIndex' = 0
             /\ thrown' = NoError
             /\ returned' = NoResult
             /\ apc' = "weights"
  /\ UNCHANGED << questionCandidates, pageConfigs, categoryRatioInputs, questionCountInput,
                  bucketIndex, selectedCandidates, randomizedSelectedCandidates,
                  renderedQuestions, downloadItem >>

(* lines 744-748 and 820-821: the allocator returns, or its Error is caught *)
AllocationReturns ==
  /\ gpc = "allocate"
  /\ apc = "done"
  /\ UNCHANGED << allocVars, detectVars, storeVars, editorVars, renderVars >>
  /\ IF thrown # NoError
       THEN /\ errorMessage' = thrown.message
            /\ gpc' = "done"
            /\ bucketIndex' = bucketIndex
       ELSE /\ errorMessage' = errorMessage
            /\ gpc' = "select"
            /\ bucketIndex' = 1
  /\ UNCHANGED << questionCandidates, pageConfigs, categoryRatioInputs, questionCountInput,
                  selectedCandidates, randomizedSelectedCandidates, renderedQuestions,
                  downloadItem >>

(* lines 749-755: the flatMap callback for one bucket *)
SelectFromBucket ==
  /\ gpc = "select"
  /\ bucketIndex <= Len(candidateBuckets)
  /\ UNCHANGED << allocVars, detectVars, storeVars, editorVars, renderVars >>
  /\ LET takeCount == returned.counts[bucketIndex]
     IN IF takeCount < 1
          THEN selectedCandidates' = selectedCandidates
          ELSE \E shuffled \in shuffleInPlace(candidateBuckets[bucketIndex].candidates) :
                 selectedCandidates' = selectedCandidates \o SliceTo(shuffled, takeCount)
  /\ bucketIndex' = bucketIndex + 1
  /\ UNCHANGED << questionCandidates, pageConfigs, categoryRatioInputs, questionCountInput,
                  randomizedSelectedCandidates, renderedQuestions, errorMessage,
                  downloadItem, gpc >>

(* line 756 *)
ShuffleSelection ==
  /\ gpc = "select"
  /\ bucketIndex > Len(candidateBuckets)
  /\ UNCHANGED << allocVars, detectVars, storeVars, editorVars, renderVars >>
  /\ \E shuffled \in shuffleInPlace(selectedCandidates) :
       randomizedSelectedCandidates' = SliceTo(shuffled, requestedCount)
  /\ gpc' = "render"
  /\ UNCHANGED << questionCandidates, pageConfigs, categoryRatioInputs, questionCountInput,
                  bucketIndex, selectedCandidates, renderedQuestions, errorMessage,
                  downloadItem >>

(* lines 779-819: crop every selected candidate and build the PDF; loading *)
(* a page image can fail, the Error is caught at line 820                  *)
RenderQuestions ==
  /\ gpc = "render"
  /\ UNCHANGED << allocVars, detectVars, storeVars, editorVars, renderVars >>
  /\ \E loaded \in BOOLEAN :
       LET rendered ==
             [i \in DOMAIN randomizedSelectedCandidates |->
                [qNo |-> randomizedSelectedCandidates[i].qNo,
                 pageNo |-> randomizedSelectedCandidates[i].pageNo,
                 category |-> resolveCandidateCategory(
                                pageConfigs, randomizedSelectedCandidates[i].pageNo)]]
       IN IF ~loaded
            THEN /\ renderedQuestions' = << >>
                 /\ errorMessage' = LoadErrorMessage
                 /\ downloadItem' = downloadItem
            ELSE /\ renderedQuestions' = rendered
                 /\ IF Len(rendered) < 1
                      THEN /\ errorMessage' = EmptyPaperMessage
                           /\ downloadItem' = downloadItem
                      ELSE /\ errorMessage' = errorMessage
                           /\ downloadItem' = << [questionCount |-> Len(rendered)] >>
  /\ gpc' = "done"
  /\ UNCHANGED << questionCandidates, pageConfigs, categoryRatioInputs, questionCountInput,
                  bucketIndex, selectedCandidates, randomizedSelectedCandidates >>

(* the allocator steps that a call from generatePaper takes: the count is  *)
(* at most the number of candidates, so the greedy loop ends with          *)
(* remaining = 0 and the final sweep is not entered                        *)
PaperNext ==
  \/ GenerateStart
  \/ ParseWeights
  \/ ComputeIdeal
  \/ FloorAllocate
  \/ GreedyRound
  \/ GreedyExit
  \/ Finish
  \/ AllocationReturns
  \/ SelectFromBucket
  \/ ShuffleSelection
  \/ RenderQuestions

(***************************************************************************)
(* The question editor of one exam page: the automatic suggestion drafts   *)
(* and the autosave of the active question                                 *)
(* (src/app/admin/exams/[examId]/edit/page.tsx).                           *)
(* The page's state is the useState values; a handler runs only after the  *)
(* effects of the previous render have run.  The Firestore documents the   *)
(* handlers read are inputs here: the store itself is SpecStore's subject. *)
(***************************************************************************)
MaxActiveQNo == 2
MaxSuggested == 2
MaxDrafts == 3

NoPartId == 0

(* createPartId: a random identifier, distinct from the ones in use; the   *)
(* i-th such identifier                                                    *)
NthFreePartId(used, i) ==
  CHOOSE k \in 1..(Cardinality(used) + i) :
    k \notin used /\ Cardinality({ j \in 1..k : j \notin used }) = i

createPartId(used) == NthFreePartId(used, 1)

EditorPart(id, rect) == [id |-> id, rect |-> rect]
Draft(qNo, id, rect) == [qNo |-> qNo, part |-> EditorPart(id, rect)]

PartIds(list) == { list[i].id : i \in DOMAIN list }
DraftIds(drafts) == { drafts[i].part.id : i \in DOMAIN drafts }

StoredPartId == 1

(* what fetchQuestionRecord can answer for the page being edited *)
LoadedQuestions ==
  { [kind |-> "none", parts |-> << >>, reviewStatus |-> "draft"],
    [kind |-> "otherPage", parts |-> << >>, reviewStatus |-> "draft"] }
  \cup { [kind |-> "here", parts |-> << EditorPart(StoredPartId, "stored") >>,
          reviewStatus |-> s] : s \in REVIEW_STATUSES }

(* what restoreQuestionPreviousSnapshot can answer: null, or the restored record *)
RestoredQuestions ==
  { [kind |-> "none", parts |-> << >>, reviewStatus |-> "draft"] }
  \cup { [kind |-> "here", parts |-> << EditorPart(StoredPartId, "restored") >>,
          reviewStatus |-> s] : s \in REVIEW_STATUSES }

NoTimer == << >>
NoSaveCall == << >>
SaveArguments(targetParts, targetQNo, targetReviewStatus) ==
  [parts |-> targetParts, qNo |-> targetQNo, reviewStatus |-> targetReviewStatus]

(* the values an autosave would carry now *)
CurrentArguments == SaveArguments(activeParts, activeQNo, activeReviewStatus)

(* the handlers of the page run once the effects of the last render have run *)
Rendered == questionInitialized /\ ~effectPending

(* a state change made by the operator, or by the program *)
Changed(origin) ==
  /\ changeOrigin' = origin
  /\ changeSerial' = 1 - changeSerial
  /\ saveCall' = NoSaveCall

Unchanged == UNCHANGED << changeOrigin, changeSerial, saveCall >>

ClearedDrafts ==
  /\ suggestedDrafts' = << >>
  /\ selectedSuggestedPartId' = NoPartId

(* lines 557-607: the state loadQuestion sets; the new activeParts array makes   *)
(* the autosave effect run                                                 *)
LoadQuestionInto(targetQNo, loaded) ==
  /\ skipNextAutosaveRef' = TRUE
  /\ activeParts' = IF loaded.kind = "otherPage" THEN << >>
              ELSE SubSeq(loaded.parts, 1, Min(1, Len(loaded.parts)))
  /\ activeReviewStatus' = IF loaded.kind = "otherPage" THEN "draft" ELSE loaded.reviewStatus
  /\ selectedPartId' = IF activeParts' = << >> \/ loaded.kind = "otherPage" THEN NoPartId
                       ELSE activeParts'[1].id
  /\ ClearedDrafts
  /\ activeQNo' = targetQNo
  /\ questionInitialized' = TRUE
  /\ effectPending' = TRUE
  /\ Changed("program")

EditorInit ==
  /\ activeQNo = 1
  /\ activeParts = << >>
  /\ selectedPartId = NoPartId
  /\ activeReviewStatus = "draft"
  /\ questionInitialized = FALSE
  /\ skipNextAutosaveRef = FALSE
  /\ suggestedDrafts = << >>
  /\ selectedSuggestedPartId = NoPartId
  /\ autosaveTimer = NoTimer
  /\ effectPending = FALSE
  /\ saveCall = NoSaveCall
  /\ suggestStartQNo = 0
  /\ changeOrigin = "none"
  /\ changeSerial = 0

(* lines 701-737: initializePage ends with loadQuestion(1) *)
InitializePage ==
  /\ ~questionInitialized
  /\ ~effectPending
  /\ \E loaded \in LoadedQuestions : LoadQuestionInto(1, loaded)
  /\ UNCHANGED << autosaveTimer, suggestStartQNo >>
  /\ UNCHANGED << allocVars, detectVars, storeVars, paperVars, renderVars >>

(* lines 739-752: the cleanup of the previous run clears its timer, then   *)
(* the effect runs                                                         *)
AutosaveEffect ==
  /\ effectPending
  /\ effectPending' = FALSE
  /\ IF ~questionInitialized
       THEN /\ autosaveTimer' = NoTimer
            /\ UNCHANGED skipNextAutosaveRef
       ELSE IF skipNextAutosaveRef
         THEN /\ skipNextAutosaveRef' = FALSE
              /\ autosaveTimer' = NoTimer
         ELSE /\ autosaveTimer' = << CurrentArguments >>
              /\ UNCHANGED skipNextAutosaveRef
  /\ UNCHANGED << activeQNo, activeParts, selectedPartId, activeReviewStatus, questionInitialized,
                  suggestedDrafts, selectedSuggestedPartId, suggestStartQNo >>
  /\ Unchanged
  /\ UNCHANGED << allocVars, detectVars, storeVars, paperVars, renderVars >>

(* lines 748-750 and 659-699: AUTOSAVE_DEBOUNCE_MS later the timer calls   *)
(* saveQuestion with the values of its render                              *)
AutosaveTimerFires ==
  /\ autosaveTimer # NoTimer
  /\ ~effectPending
  /\ saveCall' = autosaveTimer
  /\ autosaveTimer' = NoTimer
  /\ UNCHANGED << activeQNo, activeParts, selectedPartId, activeReviewStatus, questionInitialized,
                  skipNextAutosaveRef, suggestedDrafts, selectedSuggestedPartId,
                  effectPending, suggestStartQNo, changeOrigin, changeSerial >>
  /\ UNCHANGED << allocVars, detectVars, storeVars, paperVars, renderVars >>

(* lines 799-818: the operator moves or resizes the region *)
UpdatePartFromDisplayRect ==
  /\ Rendered
  /\ activeParts # << >>
  /\ activeParts' = [i \in DOMAIN activeParts |-> [activeParts[i] EXCEPT !.rect = "moved"]]
  /\ effectPending' = TRUE
  /\ Changed("operator")
  /\ UNCHANGED << activeQNo, selectedPartId, activeReviewStatus, questionInitialized,
                  skipNextAutosaveRef, suggestedDrafts, selectedSuggestedPartId,
                  autosaveTimer, suggestStartQNo >>
  /\ UNCHANGED << allocVars, detectVars, storeVars, paperVars, renderVars >>

(* lines 820-835 *)
CreateSinglePart ==
  /\ Rendered
  /\ activeParts = << >>
  /\ LET newPart == EditorPart(createPartId(DraftIds(suggestedDrafts)), "default")
     IN /\ activeParts' = << newPart >>
        /\ selectedPartId' = newPart.id
  /\ ClearedDrafts
  /\ effectPending' = TRUE
  /\ Changed("operator")
  /\ UNCHANGED << activeQNo, activeReviewStatus, questionInitialized, skipNextAutosaveRef,
                  autosaveTimer, suggestStartQNo >>
  /\ UNCHANGED << allocVars, detectVars, storeVars, paperVars, renderVars >>

(* lines 837-850 *)
DeleteSelectedPart ==
  /\ Rendered
  /\ selectedPartId # NoPartId
  /\ LET next == SelectSeq(activeParts, LAMBDA part : part.id # selectedPartId)
     IN /\ activeParts' = next
        /\ selectedPartId' = IF next = << >> THEN NoPartId ELSE next[1].id
  /\ ClearedDrafts
  /\ effectPending' = TRUE
  /\ Changed("operator")
  /\ UNCHANGED << activeQNo, activeReviewStatus, questionInitialized, skipNextAutosaveRef,
                  autosaveTimer, suggestStartQNo >>
  /\ UNCHANGED << allocVars, detectVars, storeVars, paperVars, renderVars >>

(* lines 1362, 1372, 1382: the three status buttons; setting the status it *)
(* already has changes nothing and renders nothing                         *)
SetReviewStatus ==
  /\ Rendered
  /\ \E status \in REVIEW_STATUSES :
       /\ status # activeReviewStatus
       /\ activeReviewStatus' = status
  /\ effectPending' = TRUE
  /\ Changed("operator")
  /\ UNCHANGED << activeQNo, activeParts, selectedPartId, questionInitialized,
                  skipNextAutosaveRef, suggestedDrafts, selectedSuggestedPartId,
                  autosaveTimer, suggestStartQNo >>
  /\ UNCHANGED << allocVars, detectVars, storeVars, paperVars, renderVars >>

(* lines 852-863: saveQuestion, then loadQuestion when it saved *)
JumpQuestion ==
  /\ Rendered
  /\ \E saved \in BOOLEAN, targetQNo \in 1..MaxActiveQNo, loaded \in LoadedQuestions :
       IF saved
         THEN LoadQuestionInto(targetQNo, loaded)
         ELSE /\ saveCall' = << CurrentArguments >>
              /\ UNCHANGED << activeQNo, activeParts, selectedPartId, activeReviewStatus,
                              questionInitialized, skipNextAutosaveRef, suggestedDrafts,
                              selectedSuggestedPartId, effectPending, changeOrigin,
                              changeSerial >>
  /\ UNCHANGED << autosaveTimer, suggestStartQNo >>
  /\ UNCHANGED << allocVars, detectVars, storeVars, paperVars, renderVars >>

(* lines 1128-1162 *)
RestorePreviousSnapshot ==
  /\ Rendered
  /\ \E restored \in RestoredQuestions :
       /\ restored.kind = "here"
       /\ skipNextAutosaveRef' = TRUE
       /\ activeParts' = restored.parts
       /\ selectedPartId' = IF restored.parts = << >> THEN NoPartId ELSE restored.parts[1].id
       /\ activeReviewStatus' = restored.reviewStatus
  /\ ClearedDrafts
  /\ effectPending' = TRUE
  /\ Changed("program")
  /\ UNCHANGED << activeQNo, questionInitialized, autosaveTimer, suggestStartQNo >>
  /\ UNCHANGED << allocVars, detectVars, storeVars, paperVars, renderVars >>

(* lines 1164-1196: loadQuestion(result.nextQNo) when a question was deleted *)
DeleteCurrentQuestionAndShift ==
  /\ Rendered
  /\ \E nextQNo \in 1..MaxActiveQNo, loaded \in LoadedQuestions :
       LoadQuestionInto(nextQNo, loaded)
  /\ UNCHANGED << autosaveTimer, suggestStartQNo >>
  /\ UNCHANGED << allocVars, detectVars, storeVars, paperVars, renderVars >>

(* lines 1198-1243: when the active question is among the targets the flag *)
(* is set and the status is set to "done"; a status that is "done" already *)
(* is no state change, so no render and no effect follows                  *)
MarkAllCurrentPageQuestionsDone ==
  /\ Rendered
  /\ \E activeIsTarget \in BOOLEAN :
       /\ IF activeIsTarget
            THEN /\ skipNextAutosaveRef' = TRUE
                 /\ activeReviewStatus' = "done"
                 /\ effectPending' = (activeReviewStatus # "done")
                 /\ IF activeReviewStatus # "done" THEN Changed("program") ELSE Unchanged
            ELSE /\ UNCHANGED << skipNextAutosaveRef, activeReviewStatus, effectPending >>
                 /\ Unchanged
  /\ UNCHANGED << activeQNo, activeParts, selectedPartId, questionInitialized, suggestedDrafts,
                  selectedSuggestedPartId, autosaveTimer, suggestStartQNo >>
  /\ UNCHANGED << allocVars, detectVars, storeVars, paperVars, renderVars >>

(* lines 912-948: one draft per normalized rectangle, numbered from activeQNo *)
runAutoSuggest(count, active, used) ==
  [index \in 1..count |->
     Draft(active + (index - 1), NthFreePartId(used, index), "suggested")]

RunAutoSuggest ==
  /\ Rendered
  /\ \E count \in 0..MaxSuggested :
       LET drafts == runAutoSuggest(count, activeQNo, PartIds(activeParts))
       IN /\ suggestedDrafts' = drafts
          /\ selectedSuggestedPartId' = IF drafts = << >> THEN NoPartId ELSE drafts[1].part.id
  /\ suggestStartQNo' = activeQNo
  /\ UNCHANGED << activeQNo, activeParts, selectedPartId, activeReviewStatus, questionInitialized,
                  skipNextAutosaveRef, autosaveTimer, effectPending >>
  /\ Unchanged
  /\ UNCHANGED << allocVars, detectVars, storeVars, paperVars, renderVars >>

(* lines 950-972: only the rectangle of the draft with that id changes *)
updateSuggestedDraftFromDisplayRect(prev, partId) ==
  [i \in DOMAIN prev |->
     IF prev[i].part.id = partId THEN [prev[i] EXCEPT !.part.rect = "moved"] ELSE prev[i]]

UpdateSuggestedDraftFromDisplayRect ==
  /\ Rendered
  /\ \E i \in DOMAIN suggestedDrafts :
       /\ suggestedDrafts[i].part.rect # "moved"
       /\ suggestedDrafts' =
            updateSuggestedDraftFromDisplayRect(suggestedDrafts, suggestedDrafts[i].part.id)
  /\ UNCHANGED << activeQNo, activeParts, selectedPartId, activeReviewStatus, questionInitialized,
                  skipNextAutosaveRef, selectedSuggestedPartId, autosaveTimer,
                  effectPending, suggestStartQNo >>
  /\ Unchanged
  /\ UNCHANGED << allocVars, detectVars, storeVars, paperVars, renderVars >>

(* inserted.map((draft, index) => ({ ...draft, qNo: startQNo + index })) *)
Renumber(drafts, startQNo) ==
  [i \in DOMAIN drafts |-> [drafts[i] EXCEPT !.qNo = startQNo + (i - 1)]]

(* orderedPrev.findIndex(...): 0 when no draft has the id *)
IndexOfDraft(drafts, partId) ==
  IF partId \in DraftIds(drafts)
    THEN SetMin({ i \in DOMAIN drafts : drafts[i].part.id = partId })
    ELSE 0

(* lines 974-1025, for a list that is not empty *)
addSuggestedDraft(drafts, selectedId, newId) ==
  LET orderedPrev == SortByQNo(drafts)
      startQNo == orderedPrev[1].qNo
      selectedIndex == IF selectedId # NoPartId THEN IndexOfDraft(orderedPrev, selectedId) ELSE 0
      insertIndex == IF selectedIndex >= 1 THEN selectedIndex ELSE Len(orderedPrev)
      newDraft == Draft(startQNo + insertIndex, newId, "inserted")
      inserted == InsertAt(orderedPrev, insertIndex + 1, newDraft)
  IN Renumber(inserted, startQNo)

AddSuggestedDraft ==
  /\ Rendered
  /\ suggestedDrafts # << >>
  /\ Len(suggestedDrafts) < MaxDrafts
  /\ LET newId == createPartId(DraftIds(suggestedDrafts) \cup PartIds(activeParts))
     IN /\ suggestedDrafts' = addSuggestedDraft(suggestedDrafts, selectedSuggestedPartId, newId)
        /\ selectedSuggestedPartId' = newId
  /\ UNCHANGED << activeQNo, activeParts, selectedPartId, activeReviewStatus, questionInitialized,
                  skipNextAutosaveRef, autosaveTimer, effectPending,
                  suggestStartQNo >>
  /\ Unchanged
  /\ UNCHANGED << allocVars, detectVars, storeVars, paperVars, renderVars >>

(* lines 1037-1055: the number of the first draft is read before the filter *)
deleteSuggestedDraftById_FromRemaining(prev, partId) ==
  IF prev = << >> THEN prev
  ELSE LET orderedPrev == SortByQNo(prev)
           remainingDrafts == SelectSeq(orderedPrev, LAMBDA draft : draft.part.id # partId)
           startQNo == IF remainingDrafts = << >> THEN 0 ELSE remainingDrafts[1].qNo
       IN Renumber(remainingDrafts, startQNo)

deleteSuggestedDraftById(prev, partId) ==
  IF prev = << >> THEN prev
  ELSE LET orderedPrev == SortByQNo(prev)
           startQNo == orderedPrev[1].qNo
           remainingDrafts == SelectSeq(orderedPrev, LAMBDA draft : draft.part.id # partId)
       IN Renumber(remainingDrafts, startQNo)

DeleteSuggestedDraftById ==
  /\ Rendered
  /\ \E i \in DOMAIN suggestedDrafts :
       LET partId == suggestedDrafts[i].part.id
           renumbered == deleteSuggestedDraftById(suggestedDrafts, partId)
       IN /\ suggestedDrafts' = renumbered
          /\ selectedSuggestedPartId' =
               IF /\ selectedSuggestedPartId # NoPartId
                  /\ selectedSuggestedPartId # partId
                  /\ selectedSuggestedPartId \in DraftIds(renumbered)
                 THEN selectedSuggestedPartId
                 ELSE IF renumbered = << >> THEN NoPartId ELSE renumbered[1].part.id
  /\ UNCHANGED << activeQNo, activeParts, selectedPartId, activeReviewStatus, questionInitialized,
                  skipNextAutosaveRef, autosaveTimer, effectPending,
                  suggestStartQNo >>
  /\ Unchanged
  /\ UNCHANGED << allocVars, detectVars, storeVars, paperVars, renderVars >>

(* lines 1061-1126: the drafts are saved as questions, cleared, and the    *)
(* active question is loaded again                                         *)
SaveSuggestedDrafts ==
  /\ Rendered
  /\ suggestedDrafts # << >>
  /\ \E loaded \in LoadedQuestions : LoadQuestionInto(activeQNo, loaded)
  /\ UNCHANGED << autosaveTimer, suggestStartQNo >>
  /\ UNCHANGED << allocVars, detectVars, storeVars, paperVars, renderVars >>

(* the drafts of the automatic suggestion, and what clears them *)
DraftsNext ==
  \/ InitializePage
  \/ AutosaveEffect
  \/ JumpQuestion
  \/ RunAutoSuggest
  \/ UpdateSuggestedDraftFromDisplayRect
  \/ AddSuggestedDraft
  \/ DeleteSuggestedDraftById
  \/ SaveSuggestedDrafts

(* the active question and its autosave *)
AutosaveNext ==
  \/ InitializePage
  \/ AutosaveEffect
  \/ AutosaveTimerFires
  \/ UpdatePartFromDisplayRect
  \/ CreateSinglePart
  \/ DeleteSelectedPart
  \/ SetReviewStatus
  \/ JumpQuestion
  \/ RestorePreviousSnapshot
  \/ DeleteCurrentQuestionAndShift
  \/ MarkAllCurrentPageQuestionsDone

(* the editor at rest, while another component runs *)
EditorIdle == EditorInit

(***************************************************************************)
(* The render pipeline of one exam (functions/src/index.ts): the storage   *)
(* trigger renderPdfPages, the Pub/Sub worker renderPdfBatchWorker with    *)
(* renderPdfFromStorage, and the HTTP function rerenderExamPages.          *)
(* The exam was created by createExamWithPdf: its document has a subject   *)
(* and a problemPdfPath, and the trigger of that first upload has run.     *)
(* An absent number field of the document is 0.                            *)
(***************************************************************************)
PAGES_PER_RENDER_BATCH == 20

MaxPdfPages == 41
MaxUploads == 2
MaxFailures == 1
MaxRedeliveries == 1

(* the page counts of the uploaded PDFs: one batch, two batches, three *)
PdfPageCounts == { 1, PAGES_PER_RENDER_BATCH + 1, MaxPdfPages }

(* the start pages a batch message can carry *)
BatchStarts == { s \in 1..MaxPdfPages : (s - 1) % PAGES_PER_RENDER_BATCH = 0 }

(* the rerender requests considered ask for page 1 *)
RerenderStartPages == { 1 }

ProblemPdfPath == "GeneratePDF/subject/examId.pdf"

NoPages == [p \in 1..MaxPdfPages |-> 0]

WorkerIdle == [pc |-> "idle", startPage |-> 0, pdf |-> [version |-> 0, numPages |-> 0],
               batchEndPage |-> 0, nextPageStart |-> 0]

NoDelivery == [startPage |-> 0, outcome |-> "none", serial |-> 0]

(* toPositiveInt(examData.nextPageStart) ?? 1 *)
NextPageStartFromDoc(examData) ==
  IF examData.nextPageStart > 0 THEN examData.nextPageStart ELSE 1

(* lines 386-402: the document renderPdfPages merges *)
QueuedFromPageOne(examData) ==
  [examData EXCEPT !.exists = TRUE,
                   !.problemPdfPath = ProblemPdfPath,
                   !.renderStatus = "queued",
                   !.nextPageStart = 1,
                   !.pageCount = 0,
                   !.renderedPageCount = 0]

RenderInit ==
  /\ \E numPages \in PdfPageCounts : sourcePdf = [version |-> 1, numPages |-> numPages]
  /\ exam = [exists |-> TRUE, subject |-> "subject", problemPdfPath |-> ProblemPdfPath,
             renderStatus |-> "queued", nextPageStart |-> 1, pageCount |-> 0,
             renderedPageCount |-> 0]
  /\ derivedPages = NoPages
  /\ batchQueue = { 1 }
  /\ ackedBatches = {}
  /\ worker = WorkerIdle
  /\ faults = [failed |-> 0, redelivered |-> 0]
  /\ renderLog = NoDelivery

(* lines 377-406: a new PDF is stored under the exam's path and the        *)
(* trigger runs                                                            *)
RenderPdfPages ==
  /\ sourcePdf.version < MaxUploads
  /\ \E numPages \in PdfPageCounts :
       sourcePdf' = [version |-> sourcePdf.version + 1, numPages |-> numPages]
  /\ exam' = QueuedFromPageOne(exam)
  /\ batchQueue' = batchQueue \cup { 1 }
  /\ UNCHANGED << derivedPages, ackedBatches, worker, faults, renderLog >>
  /\ UNCHANGED << allocVars, detectVars, storeVars, paperVars, editorVars >>

(* lines 473-547 *)
RerenderExamPages ==
  /\ exam.exists
  /\ \E startPage \in RerenderStartPages :
       IF exam.renderStatus = "running"
         THEN UNCHANGED << exam, batchQueue >>
         ELSE IF exam.renderStatus = "queued"
           THEN /\ batchQueue' = batchQueue \cup { NextPageStartFromDoc(exam) }
                /\ UNCHANGED exam
           ELSE /\ exam' = [exam EXCEPT
                              !.renderStatus = "queued",
                              !.nextPageStart = startPage,
                              !.pageCount = IF startPage = 1 THEN 0 ELSE @,
                              !.renderedPageCount = IF startPage = 1 THEN 0 ELSE @]
                /\ batchQueue' = batchQueue \cup { startPage }
  /\ UNCHANGED << sourcePdf, derivedPages, ackedBatches, worker, faults, renderLog >>
  /\ UNCHANGED << allocVars, detectVars, storeVars, paperVars, editorVars >>

(* lines 444-450 *)
IsReady(examData) == examData.renderStatus = "ready"

(* lines 452-459 *)
IsStaleBatch_Never(startPage, examData) == FALSE

IsStaleBatch(startPage, examData) == startPage # NextPageStartFromDoc(examData)

(* lines 418-459: what the worker decides from the message and the document *)
DeliveryOutcome(startPage, examData) ==
  IF ~examData.exists THEN "missing"
  ELSE IF examData.problemPdfPath = "" THEN "noPath"
  ELSE IF IsReady(examData) THEN "ready"
  ELSE IF IsStaleBatch(startPage, examData) THEN "stale"
  ELSE "accepted"

(* lines 408-461: Pub/Sub delivers a message; maxInstances 1 and           *)
(* concurrency 1 keep one invocation at a time.  A skipped message is      *)
(* acknowledged by the return; an accepted one is held by the invocation   *)
(* until it returns or throws                                              *)
WorkerReceive(startPage) ==
  /\ worker.pc = "idle"
  /\ startPage \in batchQueue
  /\ LET outcome == DeliveryOutcome(startPage, exam)
     IN /\ renderLog' = [startPage |-> startPage, outcome |-> outcome,
                         serial |-> 1 - renderLog.serial]
        /\ IF outcome = "accepted"
             THEN /\ worker' = [WorkerIdle EXCEPT !.pc = "start", !.startPage = startPage]
                  /\ batchQueue' = batchQueue \ { startPage }
                  /\ UNCHANGED ackedBatches
             ELSE /\ batchQueue' = batchQueue \ { startPage }
                  /\ ackedBatches' = ackedBatches \cup { startPage }
                  /\ UNCHANGED worker
  /\ UNCHANGED << exam, sourcePdf, derivedPages, faults >>
  /\ UNCHANGED << allocVars, detectVars, storeVars, paperVars, editorVars >>

(* lines 233-247: renderPdfFromStorage marks the exam running *)
MarkRunning ==
  /\ worker.pc = "start"
  /\ exam' = [exam EXCEPT !.exists = TRUE, !.renderStatus = "running"]
  /\ worker' = [worker EXCEPT !.pc = "download"]
  /\ UNCHANGED << sourcePdf, derivedPages, batchQueue, ackedBatches, faults, renderLog >>
  /\ UNCHANGED << allocVars, detectVars, storeVars, paperVars, editorVars >>

(* lines 254-271: the PDF stored now is downloaded and opened; the first   *)
(* batch clears the derived outputs                                        *)
DownloadPdf ==
  /\ worker.pc = "download"
  /\ derivedPages' = IF worker.startPage = 1 THEN NoPages ELSE derivedPages
  /\ worker' = [worker EXCEPT
                  !.pc = "render",
                  !.pdf = sourcePdf,
                  !.batchEndPage = Min(sourcePdf.numPages,
                                       worker.startPage + PAGES_PER_RENDER_BATCH - 1)]
  /\ UNCHANGED << exam, sourcePdf, batchQueue, ackedBatches, faults, renderLog >>
  /\ UNCHANGED << allocVars, detectVars, storeVars, paperVars, editorVars >>

(* lines 273-303: the pages of the batch are rendered and stored *)
RenderBatch ==
  /\ worker.pc = "render"
  /\ derivedPages' = [p \in 1..MaxPdfPages |->
                        IF worker.startPage <= p /\ p <= worker.batchEndPage
                          THEN worker.pdf.version
                          ELSE derivedPages[p]]
  /\ worker' = [worker EXCEPT !.pc = "write"]
  /\ UNCHANGED << exam, sourcePdf, batchQueue, ackedBatches, faults, renderLog >>
  /\ UNCHANGED << allocVars, detectVars, storeVars, paperVars, editorVars >>

(* lines 305-327: the write that ends the batch *)
WriteBatchResult ==
  /\ worker.pc = "write"
  /\ LET pageCount == worker.pdf.numPages
         nextPageStart == IF worker.batchEndPage < pageCount
                            THEN worker.batchEndPage + 1 ELSE 0
     IN /\ exam' = [exam EXCEPT
                      !.exists = TRUE,
                      !.problemPdfPath = ProblemPdfPath,
                      !.pageCount = pageCount,
                      !.renderedPageCount = worker.batchEndPage,
                      !.nextPageStart = nextPageStart,
                      !.renderStatus = IF nextPageStart = 0 THEN "ready" ELSE "running"]
        /\ worker' = [worker EXCEPT !.pc = "publish", !.nextPageStart = nextPageStart]
  /\ UNCHANGED << sourcePdf, derivedPages, batchQueue, ackedBatches, faults, renderLog >>
  /\ UNCHANGED << allocVars, detectVars, storeVars, paperVars, editorVars >>

(* lines 467-469: the next batch is published and the message acknowledged *)
PublishNextBatch ==
  /\ worker.pc = "publish"
  /\ batchQueue' = batchQueue
                     \cup (IF worker.nextPageStart > 0 THEN { worker.nextPageStart } ELSE {})
  /\ ackedBatches' = ackedBatches \cup { worker.startPage }
  /\ worker' = WorkerIdle
  /\ UNCHANGED << exam, sourcePdf, derivedPages, faults, renderLog >>
  /\ UNCHANGED << allocVars, detectVars, storeVars, paperVars, editorVars >>

(* lines 338-361: an error inside the try block; the message is not        *)
(* acknowledged and Pub/Sub delivers it again (retry: true)                *)
RenderFails ==
  /\ worker.pc \in { "download", "render", "write" }
  /\ faults.failed < MaxFailures
  /\ exam' = [exam EXCEPT !.exists = TRUE,
                          !.renderStatus = "failed",
                          !.nextPageStart = worker.startPage]
  /\ worker' = WorkerIdle
  /\ batchQueue' = batchQueue \cup { worker.startPage }
  /\ faults' = [faults EXCEPT !.failed = @ + 1]
  /\ UNCHANGED << sourcePdf, derivedPages, ackedBatches, renderLog >>
  /\ UNCHANGED << allocVars, detectVars, storeVars, paperVars, editorVars >>

(* lines 467-469: enqueueRenderBatch rejects, or the invocation ends,      *)
(* after the batch's write; the message is delivered again                 *)
PublishFails ==
  /\ worker.pc = "publish"
  /\ worker.nextPageStart > 0
  /\ faults.failed < MaxFailures
  /\ worker' = WorkerIdle
  /\ batchQueue' = batchQueue \cup { worker.startPage }
  /\ faults' = [faults EXCEPT !.failed = @ + 1]
  /\ UNCHANGED << exam, sourcePdf, derivedPages, ackedBatches, renderLog >>
  /\ UNCHANGED << allocVars, detectVars, storeVars, paperVars, editorVars >>

(* Pub/Sub delivers at least once: an acknowledged message comes again *)
Redeliver ==
  /\ faults.redelivered < MaxRedeliveries
  /\ \E startPage \in ackedBatches \ batchQueue :
       /\ batchQueue' = batchQueue \cup { startPage }
       /\ ackedBatches' = ackedBatches \ { startPage }
  /\ faults' = [faults EXCEPT !.redelivered = @ + 1]
  /\ UNCHANGED << exam, sourcePdf, derivedPages, worker, renderLog >>
  /\ UNCHANGED << allocVars, detectVars, storeVars, paperVars, editorVars >>

WorkerStep ==
  \/ MarkRunning
  \/ DownloadPdf
  \/ RenderBatch
  \/ WriteBatchResult
  \/ PublishNextBatch

RenderNext ==
  \/ RenderPdfPages
  \/ RerenderExamPages
  \/ \E startPage \in BatchStarts : WorkerReceive(startPage)
  \/ MarkRunning
  \/ DownloadPdf
  \/ RenderBatch
  \/ WriteBatchResult
  \/ PublishNextBatch
  \/ RenderFails
  \/ PublishFails
  \/ Redeliver

(* the pipeline before any exam exists, while another component runs *)
RenderIdle ==
  /\ exam = [exists |-> FALSE, subject |-> "", problemPdfPath |-> "",
             renderStatus |-> "none", nextPageStart |-> 0, pageCount |-> 0,
             renderedPageCount |-> 0]
  /\ sourcePdf = [version |-> 0, numPages |-> 0]
  /\ derivedPages = NoPages
  /\ batchQueue = {}
  /\ ackedBatches = {}
  /\ worker = WorkerIdle
  /\ faults = [failed |-> 0, redelivered |-> 0]
  /\ renderLog = NoDelivery

(* the page at rest, while another component runs *)
PaperIdle ==
  /\ questionCandidates = << >>
  /\ pageConfigs = << >>
  /\ categoryRatioInputs = << >>
  /\ questionCountInput = 0
  /\ bucketIndex = 0
  /\ selectedCandidates = << >>
  /\ randomizedSelectedCandidates = << >>
  /\ renderedQuestions = << >>
  /\ errorMessage = NoMessage
  /\ downloadItem = << >>
  /\ gpc = "idle"

(* the store at rest, while the allocator or the pipeline runs *)
StoreIdle ==
  /\ questions = EmptyStore
  /\ serverTime = 0
  /\ reply = NoReply

(* the pipeline at rest, while the allocator or the store runs *)
DetectIdle ==
  /\ displaySize = NoSize
  /\ image = BlankWhiteImage
  /\ surface = "ok"
  /\ sourceSize = NoSize
  /\ graySum = 0
  /\ threshold = <<0, 1>>
  /\ mask = {}
  /\ dilated = {}
  /\ visited = {}
  /\ boxes = << >>
  /\ rawRects = << >>
  /\ filtered = << >>
  /\ mergeIndex = 0
  /\ merged = << >>
  /\ normalizedRects = << >>
  /\ dpc = "idle"

(* the allocator at rest, while the pipeline or the store runs *)
AllocIdle ==
  /\ availableByCategory = << >>
  /\ ratioInputs = << >>
  /\ requestedCount = 0
  /\ requestedWeightByCategory = Unset
  /\ totalWeight = 0
  /\ idealByCategory = Unset
  /\ allocatedByCategory = Unset
  /\ remaining = 0
  /\ sweepIndex = 0
  /\ thrown = NoError
  /\ returned = NoResult
  /\ apc = "idle"

InitDetect == DetectInit /\ AllocIdle /\ StoreIdle /\ PaperIdle /\ EditorIdle /\ RenderIdle
NextDetect == DetectNext
SpecDetect == InitDetect /\ [][NextDetect]_vars

InitStore == StoreInit /\ AllocIdle /\ DetectIdle /\ PaperIdle /\ EditorIdle /\ RenderIdle
NextStore == StoreNext
SpecStore == InitStore /\ [][NextStore]_vars

InitPaper == PaperInit /\ AllocIdle /\ DetectIdle /\ StoreIdle /\ EditorIdle /\ RenderIdle
NextPaper == PaperNext
SpecPaper == InitPaper /\ [][NextPaper]_vars

InitEditor == EditorInit /\ AllocIdle /\ DetectIdle /\ StoreIdle /\ PaperIdle /\ RenderIdle
SpecDrafts == InitEditor /\ [][DraftsNext]_vars

SpecAutosave == InitEditor /\ [][AutosaveNext]_vars

(* React runs the effects of a render, and the browser fires a timer that  *)
(* is not cleared                                                          *)
SpecAutosaveFair ==
  SpecAutosave /\ WF_vars(AutosaveEffect) /\ WF_vars(AutosaveTimerFires)

InitRender == RenderInit /\ AllocIdle /\ DetectIdle /\ StoreIdle /\ PaperIdle /\ EditorIdle
NextRender == RenderNext
SpecRender == InitRender /\ [][NextRender]_vars

(* an invocation that started runs on, and Pub/Sub delivers every message  *)
(* it holds                                                                *)
SpecRenderFair ==
  SpecRender /\ WF_vars(WorkerStep)
             /\ \A startPage \in BatchStarts : SF_vars(WorkerReceive(startPage))

Init == AllocInit /\ DetectIdle /\ StoreIdle /\ PaperIdle /\ EditorIdle /\ RenderIdle
Next == AllocNext
Spec == Init /\ [][Next]_vars

(***************************************************************************)
(* Vocabulary of the allocator properties, stated on the inputs.           *)
(***************************************************************************)
InputWeightPositive(c) == ratioInputs[c].kind = "numeric" /\ ratioInputs[c].value > 0

InputWeight(c) ==
  IF ~InputWeightPositive(c) THEN 0
  ELSE IF ratioInputs[c].value > 100 THEN 100 ELSE ratioInputs[c].value

PositiveWeightTotal == \E c \in categoryOrder : InputWeightPositive(c)

TotalInputWeight == SumSeq([c \in categoryOrder |-> InputWeight(c)])

TotalAvailable == SumSeq(availableByCategory)

Succeeded == apc = "done" /\ returned.kind = "counts"

FailedWith(msg) == apc = "done" /\ thrown.kind = "Error" /\ thrown.message = msg

AllocStarted == allocatedByCategory # Unset

(* ideal[c] = IdealNum(c) / TotalInputWeight, as an exact fraction *)
IdealNum(c) == requestedCount * InputWeight(c)
IdealFloor(c) == IdealNum(c) \div TotalInputWeight
IdealFraction(c) == IdealNum(c) % TotalInputWeight
IdealCeil(c) == IdealFloor(c) + (IF IdealFraction(c) > 0 THEN 1 ELSE 0)
CappedBelowIdeal(c) == availableByCategory[c] * TotalInputWeight < IdealNum(c)
NoCategoryCapped == \A c \in categoryOrder : availableByCategory[c] >= IdealCeil(c)

IsCall(av, ra, rq) ==
  availableByCategory = av /\ ratioInputs = ra /\ requestedCount = rq

(* C1: with total weight > 0 and enough candidates overall the call returns
   (no throw) counts whose sum is exactly requestedCount. *)
C1_AllocationExact ==
  (apc = "done" /\ PositiveWeightTotal /\ TotalAvailable >= requestedCount)
    => /\ thrown = NoError
       /\ returned.kind = "counts"
       /\ DOMAIN returned.counts = categoryOrder
       /\ SumSeq(returned.counts) = requestedCount

C1_Witness ==
  /\ Succeeded
  /\ Len(availableByCategory) >= 2
  /\ SumSeq(returned.counts) = requestedCount
  /\ \E c \in categoryOrder : IdealFraction(c) > 0

(* C2: after the floor step, after every greedy round and sweep step, and in
   the returned counts, 0 <= allocated[c] <= available[c] for every category. *)
C2_AllocationCapped ==
  /\ AllocStarted =>
       \A c \in categoryOrder :
         0 <= allocatedByCategory[c] /\ allocatedByCategory[c] <= availableByCategory[c]
  /\ returned.kind = "counts" =>
       \A c \in categoryOrder :
         0 <= returned.counts[c] /\ returned.counts[c] <= availableByCategory[c]

C2_Witness ==
  /\ Succeeded
  /\ \E c \in categoryOrder :
       /\ CappedBelowIdeal(c)
       /\ returned.counts[c] = availableByCategory[c]
  /\ \E d \in categoryOrder : returned.counts[d] > IdealFloor(d)

(* C3: with total weight > 0 and fewer candidates overall than requestedCount
   the call throws the availability error and returns no counts at all. *)
C3_ShortfallFails ==
  (apc = "done" /\ PositiveWeightTotal /\ TotalAvailable < requestedCount)
    => /\ thrown = NewError(AvailabilityErrorMessage)
       /\ returned = NoResult

C3_Witness ==
  /\ FailedWith(AvailabilityErrorMessage)
  /\ TotalAvailable < requestedCount
  /\ Len(availableByCategory) >= 2

(* C4: when every weight is <= 0 the call throws the weight error right after
   summing the weights: no ideal share and no allocation has been computed,
   whatever the availability is. *)
C4_WeightErrorFirst ==
  (apc # "weights" /\ ~PositiveWeightTotal)
    => /\ apc = "done"
       /\ thrown = NewError(WeightErrorMessage)
       /\ returned = NoResult
       /\ idealByCategory = Unset
       /\ allocatedByCategory = Unset

C4_Witness ==
  /\ FailedWith(WeightErrorMessage)
  /\ TotalAvailable < requestedCount
  /\ \E c \in categoryOrder : ratioInputs[c] = NumericText(-5)
  /\ \E c \in categoryOrder : ratioInputs[c] = Undefined

C6_LargestRemainder ==
  (apc = "done" /\ PositiveWeightTotal /\ NoCategoryCapped)
    => /\ returned.kind = "counts"
       /\ \A c \in categoryOrder :
            returned.counts[c] \in { IdealFloor(c), IdealFloor(c) + 1 }
       /\ \A c, d \in categoryOrder :
            (returned.counts[c] = IdealFloor(c) + 1 /\ returned.counts[d] = IdealFloor(d))
              => IdealFraction(c) >= IdealFraction(d)
       /\ IsCall(<<10, 10>>, <<NumericText(60), NumericText(40)>>, 10)
            => returned.counts = <<6, 4>>

C6_Witness ==
  /\ Succeeded
  /\ NoCategoryCapped
  /\ \E c, d \in categoryOrder :
       /\ returned.counts[c] = IdealFloor(c) + 1
       /\ returned.counts[d] = IdealFloor(d)
       /\ IdealFraction(d) > 0
       /\ IdealFraction(c) > IdealFraction(d)

(* C7: a category capped by its availability below its ideal share gets
   exactly its availability, the other categories stay within theirs and get
   at least their floor share, and the total stays exact;
   {A: 3, B: 10}, weights 60/40, requestedCount 10 gives {A: 3, B: 7}. *)
C7_CappedRedistributes ==
  (apc = "done" /\ PositiveWeightTotal /\ TotalAvailable >= requestedCount
     /\ \E c \in categoryOrder : CappedBelowIdeal(c))
    => /\ returned.kind = "counts"
       /\ SumSeq(returned.counts) = requestedCount
       /\ \A c \in categoryOrder :
            IF CappedBelowIdeal(c)
              THEN returned.counts[c] = availableByCategory[c]
              ELSE /\ returned.counts[c] >= IdealFloor(c)
                   /\ returned.counts[c] <= availableByCategory[c]
       /\ IsCall(<<3, 10>>, <<NumericText(60), NumericText(40)>>, 10)
            => returned.counts = <<3, 7>>

C7_Witness ==
  /\ Succeeded
  /\ IsCall(<<3, 10>>, <<NumericText(60), NumericText(40)>>, 10)
  /\ returned.counts = <<3, 7>>

(* C8: every greedy round gives its unit to a category with spare capacity
   whose ideal - allocated is maximal among the categories with spare capacity,
   and among exact ties to the earliest in bucket order; two buckets with equal
   weights and ample availability, requestedCount 1: the first gets the unit. *)
IsGreedyChoice(c) ==
  /\ allocatedByCategory[c] < availableByCategory[c]
  /\ \A d \in categoryOrder :
       allocatedByCategory[d] < availableByCategory[d]
         => /\ IdealNum(d) - allocatedByCategory[d] * TotalInputWeight
                 <= IdealNum(c) - allocatedByCategory[c] * TotalInputWeight
            /\ d < c => IdealNum(d) - allocatedByCategory[d] * TotalInputWeight
                          < IdealNum(c) - allocatedByCategory[c] * TotalInputWeight

GreedyRoundTaken ==
  apc = "greedy" /\ apc' = "greedy" /\ allocatedByCategory' # allocatedByCategory

InFrame(rect, size) ==
  /\ 0 <= rect.x
  /\ 0 <= rect.y
  /\ rect.x + rect.width <= size.width * Unit
  /\ rect.y + rect.height <= size.height * Unit
  /\ rect.width >= Unit
  /\ rect.height >= Unit

AllInFrame(list) == \A i \in DOMAIN list : InFrame(list[i], displaySize)

PipelineDone == dpc = "done"

(* overlap / union < n / d, for a fraction <<overlap, union>> *)
FractionBelow(iou, n, d) ==
  iou[1] < n * (iou[2] \div d) + (n * (iou[2] % d) + d - 1) \div d

(* C9: every rect produced by detectSuggestionRects followed by
   normalizeSuggestionRects lies inside the frame and is at least 1 x 1:
   0 <= x, 0 <= y, x + width <= W, y + height <= H, width >= 1, height >= 1.
   It holds of the returned list and of every intermediate list. *)
C9_RectsInFrame ==
  /\ AllInFrame(normalizedRects)
  /\ AllInFrame(rawRects)
  /\ AllInFrame(boxes)
  /\ AllInFrame(filtered)
  /\ AllInFrame(merged)

C9_Witness ==
  /\ PipelineDone
  /\ Len(normalizedRects) >= 2
  /\ \E i \in DOMAIN normalizedRects :
       /\ normalizedRects[i].y = 0
       /\ normalizedRects[i].x + normalizedRects[i].width = displaySize.width * Unit

(* C10: in the list returned by the pipeline every two distinct rects have an
   intersection-over-union below the merge threshold 0.32. *)
C10_NoOverlapAboveThreshold ==
  PipelineDone =>
    \A i, j \in DOMAIN normalizedRects :
      i < j => FractionBelow(getIoU(normalizedRects[i], normalizedRects[j]),
                             MERGE_IOU_PERCENT, 100)

(***************************************************************************)
(* C11: in the returned list every two consecutive rects a, b are in       *)
(* reading order: either their tops are within the row band (1.5% of the   *)
(* frame height) and a.x <= b.x, or a.y < b.y.  The comparator is not      *)
(* transitive, so this is a property of neighbours only.                   *)
(***************************************************************************)
RowBand(size) == FrameRatio(size.height, 15)

InReadingOrder(a, b, size) ==
  \/ Abs(a.y - b.y) < RowBand(size) /\ a.x <= b.x
  \/ a.y < b.y

C11_ReadingOrder ==
  PipelineDone =>
    \A i \in 1..(Len(normalizedRects) - 1) :
      InReadingOrder(normalizedRects[i], normalizedRects[i + 1], displaySize)

(* three returned rects on which the comparator runs in a cycle *)
C11_Witness ==
  /\ PipelineDone
  /\ Len(normalizedRects) >= 3
  /\ \E i, j, k \in DOMAIN normalizedRects :
       /\ compareRects("reading", normalizedRects[i], normalizedRects[j], displaySize) < 0
       /\ compareRects("reading", normalizedRects[j], normalizedRects[k], displaySize) < 0
       /\ compareRects("reading", normalizedRects[k], normalizedRects[i], displaySize) < 0

(***************************************************************************)
(* C12: a bitmap whose pixels all have the same colour gives an empty      *)
(* list, whether the colour is light (no ink cell) or dark (one component  *)
(* covering the page, rejected by the size filter).                        *)
(***************************************************************************)
IsUniform(img) == \A i \in DOMAIN img.blocks : img.blocks[i].colour = img.background

C12_BlankPageEmpty ==
  (PipelineDone /\ IsUniform(image)) => normalizedRects = << >>

(* a dark page: the whole grid is one component and its box was dropped *)
C12_Witness ==
  /\ PipelineDone
  /\ IsUniform(image)
  /\ surface = "ok"
  /\ Len(boxes) = 1
  /\ normalizedRects = << >>

(***************************************************************************)
(* Vocabulary for pages made of rectangular blocks.                        *)
(***************************************************************************)
FirstCol(b) == b.x0 \div CELL
LastCol(b) == (b.x1 - 1) \div CELL
FirstRow(b) == b.y0 \div CELL
LastRow(b) == (b.y1 - 1) \div CELL

BlockCells(b, src) ==
  { cy * colsOf(src) + cx : cx \in FirstCol(b)..LastCol(b), cy \in FirstRow(b)..LastRow(b) }

(* white cells between two blocks, along the axis that separates them *)
CellGap(a, b) ==
  Max(Max(FirstCol(b) - LastCol(a) - 1, FirstCol(a) - LastCol(b) - 1),
      Max(FirstRow(b) - LastRow(a) - 1, FirstRow(a) - LastRow(b) - 1))

(* white cells between a block and the nearest edge of the grid *)
EdgeGap(b, src) ==
  Min(Min(FirstCol(b), colsOf(src) - 1 - LastCol(b)),
      Min(FirstRow(b), rowsOf(src) - 1 - LastRow(b)))

DILATION_REACH == 1

(* the block, and the block with the dilation ring and the padding ring, *)
(* in display units                                                      *)
BlockDisplayRect(b, size, src) ==
  Rect(ScaleToDisplay(b.x0, size.width, src.width),
       ScaleToDisplay(b.y0, size.height, src.height),
       ScaleToDisplay(b.x1 - b.x0, size.width, src.width),
       ScaleToDisplay(b.y1 - b.y0, size.height, src.height))

PaddedDisplayRect(b, size, src) ==
  LET ring == DILATION_REACH + BOX_PAD
  IN Rect(ScaleToDisplay((FirstCol(b) - ring) * CELL, size.width, src.width),
          ScaleToDisplay((FirstRow(b) - ring) * CELL, size.height, src.height),
          ScaleToDisplay((LastCol(b) - FirstCol(b) + 1 + 2 * ring) * CELL, size.width, src.width),
          ScaleToDisplay((LastRow(b) - FirstRow(b) + 1 + 2 * ring) * CELL, size.height, src.height))

Covers(outer, inner) ==
  /\ outer.x <= inner.x
  /\ outer.y <= inner.y
  /\ inner.x + inner.width <= outer.x + outer.width
  /\ inner.y + inner.height <= outer.y + outer.height

(* exactly two dark blocks, apart from each other and from the page edges *)
(* by more white cells than the dilation bridges                          *)
TwoSeparatedBlocks ==
  /\ surface = "ok"
  /\ Len(image.blocks) = 2
  /\ mask = BlockCells(image.blocks[1], sourceSize) \cup BlockCells(image.blocks[2], sourceSize)
  /\ CellGap(image.blocks[1], image.blocks[2]) > 2 * DILATION_REACH
  /\ \A i \in 1..2 : EdgeGap(image.blocks[i], sourceSize) > DILATION_REACH

UpperBlock ==
  IF image.blocks[1].y0 <= image.blocks[2].y0 THEN image.blocks[1] ELSE image.blocks[2]

LowerBlock ==
  IF image.blocks[1].y0 <= image.blocks[2].y0 THEN image.blocks[2] ELSE image.blocks[1]

PaddedBoxPlausible(b) ==
  LET box == PaddedDisplayRect(b, displaySize, sourceSize)
  IN /\ PlausibleSize(box, displaySize)
     /\ box.width >= MIN_BOX_DISPLAY_SIZE * Unit
     /\ box.height >= MIN_BOX_DISPLAY_SIZE * Unit

C14_SoftFailure ==
  (surface # "ok" /\ dpc # "start") =>
    /\ dpc # "thrown"
    /\ rawRects = << >>
    /\ boxes = << >>

(***************************************************************************)
(* C17 as stated: when the greedy pass ends with units left, some category *)
(* still has spare capacity, which the final sweep then fills.             *)
(***************************************************************************)
C17_SweepHasCapacityToFill ==
  (apc = "sweep" /\ sweepIndex = 1) => \E c \in categoryOrder : HasSpare(c)

(***************************************************************************)
(* C17 amended: the greedy pass ends with units left only when every       *)
(* category is filled to its availability, so the sweep finds nothing to   *)
(* top up and the units are still left when it ends.                       *)
(***************************************************************************)
C17_SweepFindsNoCapacity ==
  (apc \in {"sweep", "finish"} /\ remaining > 0) =>
    /\ \A c \in categoryOrder : allocatedByCategory[c] = availableByCategory[c]
    /\ remaining = requestedCount - TotalAvailable

(* the sweep has gone through two categories and the units are still left *)
C17_Witness ==
  /\ apc = "sweep"
  /\ sweepIndex > 2
  /\ remaining > 0

(***************************************************************************)
(* C18: the cap of 40 is the last step: the result has at most 40 rects    *)
(* and every component that passes the minimum-footprint filter reaches    *)
(* the normalization pass.                                                 *)
(***************************************************************************)
C18_CapIsLastStep ==
  (surface = "ok" /\ dpc \in {"normalize", "merge", "done"}) =>
    /\ Len(normalizedRects) <= SUGGESTION_LIMIT
    /\ \A i \in DOMAIN boxes : \E j \in DOMAIN rawRects : rawRects[j] = boxes[i]

(***************************************************************************)
(* C19: after the merge loop, before the padding expansion, no rect of the *)
(* merged list fully contains another one, whichever of the two came first *)
(* in the sorted order.                                                    *)
(***************************************************************************)
MergeLoopEnded == (dpc = "merge" /\ mergeIndex > Len(filtered)) \/ dpc = "done"

C19_NoNestedRects ==
  MergeLoopEnded =>
    \A i, j \in DOMAIN merged : i # j => ~Covers(merged[i], merged[j])

(***************************************************************************)
(* C20: expandRect applied to a rect inside the frame gives a rect that    *)
(* contains the original and lies inside the frame; when the rect is at    *)
(* least the padding away from the top and bottom edges the result reaches *)
(* 0.8% of H above it and 1.6% of H below it; near an edge the result is   *)
(* shifted inward and still contains the original.  Every returned rect is *)
(* such an expansion of a merged rect.                                     *)
(***************************************************************************)
PadAbove(size) == FrameRatio(size.height, 8)
PadBelow(size) == FrameRatio(size.height, 16)

ClearOfTopAndBottom(rect, size) ==
  /\ rect.y >= PadAbove(size)
  /\ rect.y + rect.height + PadBelow(size) <= size.height * Unit

ExpandsWell(rect, size) ==
  LET e == expandRect(rect, size)
  IN /\ Covers(e, rect)
     /\ InFrame(e, size)
     /\ ClearOfTopAndBottom(rect, size) =>
          /\ rect.y - e.y = PadAbove(size)
          /\ (e.y + e.height) - (rect.y + rect.height) = PadBelow(size)
          /\ PadBelow(size) > PadAbove(size)

C20_ExpandContainsAndStaysInFrame ==
  /\ \A i \in DOMAIN merged : InFrame(merged[i], displaySize) => ExpandsWell(merged[i], displaySize)
  /\ PipelineDone =>
       \A j \in DOMAIN normalizedRects :
         \E i \in DOMAIN merged : normalizedRects[j] = expandRect(merged[i], displaySize)

(* a returned rect pressed against the bottom and left edges, expanded from *)
(* a merged rect that already touched them, and one clear of the edges     *)
C20_Witness ==
  /\ PipelineDone
  /\ \E i \in DOMAIN merged :
       /\ merged[i].x = 0
       /\ merged[i].y + merged[i].height = displaySize.height * Unit
       /\ expandRect(merged[i], displaySize).y < merged[i].y
       /\ \E j \in DOMAIN normalizedRects :
            normalizedRects[j] = expandRect(merged[i], displaySize)

(***************************************************************************)
(* Vocabulary of the store properties.                                     *)
(***************************************************************************)
KeyOf(ref) == << toPositiveInt(questions[ref].pageNo), toPositiveInt(questions[ref].qNo) >>

DocsOfKey(pageNo, qNo) == { ref \in DOMAIN questions : KeyOf(ref) = << pageNo, qNo >> }

LatestDocsOfKey(pageNo, qNo) ==
  { ref \in DocsOfKey(pageNo, qNo) :
      \A other \in DocsOfKey(pageNo, qNo) :
        questions[other].updatedAt <= questions[ref].updatedAt }

TakenFrom(row, ref) ==
  /\ row.reviewStatus = normalizeReviewStatus(questions[ref].reviewStatus)
  /\ \E i \in DOMAIN questions[ref].parts :
       normalizeParts(questions[ref].parts, row.pageNo)[i] = row.part

(***************************************************************************)
(* C15: fetchExamQuestionCandidates returns at most one candidate per key  *)
(* (pageNo, qNo), and it is taken from the document with the latest        *)
(* updatedAt among all stored documents of that key, whatever the status   *)
(* filter.                                                                 *)
(***************************************************************************)
C15_LatestVersionPerKey ==
  reply.op = "fetchExamQuestionCandidates" =>
    /\ \A i, j \in DOMAIN reply.rows :
         i # j => << reply.rows[i].pageNo, reply.rows[i].qNo >>
                  # << reply.rows[j].pageNo, reply.rows[j].qNo >>
    /\ \A i \in DOMAIN reply.rows :
         \E ref \in LatestDocsOfKey(reply.rows[i].pageNo, reply.rows[i].qNo) :
           TakenFrom(reply.rows[i], ref)

(***************************************************************************)
(* C16: every document stored under the id of (pageNo p, qNo q) has stored *)
(* pageNo = p and qNo = q, and every operation keeps it so; a lookup of    *)
(* (p, q) gives null or a record of page p.                                *)
(***************************************************************************)
KeysConsistent(store) ==
  \A ref \in DOMAIN store :
    ref.kind = "page" => store[ref].pageNo = ref.pageNo /\ store[ref].qNo = ref.qNo

C16_KeyConsistency ==
  [][ KeysConsistent(questions) =>
        /\ KeysConsistent(questions')
        /\ reply'.op = "fetchQuestionRecord" =>
             \A i \in DOMAIN reply'.rows : reply'.rows[i].pageNo = reply'.pageNo ]_vars

(***************************************************************************)
(* Vocabulary for dust: an ink cell of the un-dilated mask with no other   *)
(* ink cell near enough for the two dilations to touch.                    *)
(***************************************************************************)
ColOf(idx) == idx % colsOf(sourceSize)
RowOf(idx) == idx \div colsOf(sourceSize)

IsolatedInkCells ==
  { idx \in mask :
      \A other \in mask \ {idx} :
        \/ Abs(ColOf(other) - ColOf(idx)) > 2 * DILATION_REACH + 1
        \/ Abs(RowOf(other) - RowOf(idx)) > 2 * DILATION_REACH + 1 }

(* the component of the dilated mask that arises from one ink cell *)
DustComponent(idx) == dilatedOf({idx}, colsOf(sourceSize), rowsOf(sourceSize))

(* the box that lines 468-489 build around a component, in display units *)
ComponentBox(component) ==
  LET minX == SetMin({ ColOf(idx) : idx \in component })
      maxX == SetMax({ ColOf(idx) : idx \in component })
      minY == SetMin({ RowOf(idx) : idx \in component })
      maxY == SetMax({ RowOf(idx) : idx \in component })
      pixelX == Max(0, (minX - BOX_PAD) * CELL)
      pixelY == Max(0, (minY - BOX_PAD) * CELL)
      pixelWidth == Min(sourceSize.width - pixelX, (maxX - minX + 1 + BOX_PAD * 2) * CELL)
      pixelHeight == Min(sourceSize.height - pixelY, (maxY - minY + 1 + BOX_PAD * 2) * CELL)
  IN clampDisplayRect(
       Rect(ScaleToDisplay(pixelX, displaySize.width, sourceSize.width),
            ScaleToDisplay(pixelY, displaySize.height, sourceSize.height),
            ScaleToDisplay(pixelWidth, displaySize.width, sourceSize.width),
            ScaleToDisplay(pixelHeight, displaySize.height, sourceSize.height)),
       displaySize, MIN_BOX_DISPLAY_SIZE)

(***************************************************************************)
(* C21: the component that arises from a single isolated ink cell of the   *)
(* un-dilated mask yields no candidate box, wherever the cell lies in the  *)
(* grid: once the flood fill has visited it, boxes holds no box for it.    *)
(***************************************************************************)
C21_DustYieldsNoBox ==
  dpc = "fill" =>
    \A idx \in IsolatedInkCells :
      DustComponent(idx) \subseteq visited =>
        \A i \in DOMAIN boxes : boxes[i] # ComponentBox(DustComponent(idx))

(***************************************************************************)
(* C22: a category of weight 0 is given a unit only when every category of *)
(* positive weight is already filled to its availability.                  *)
(***************************************************************************)
C22_ZeroWeightServedLast ==
  [][ \A c \in categoryOrder :
        ( /\ AllocStarted
          /\ AllocStarted'
          /\ InputWeight(c) = 0
          /\ allocatedByCategory'[c] > allocatedByCategory[c] )
        => \A d \in categoryOrder : InputWeight(d) > 0 => ~HasSpare(d) ]_vars

(***************************************************************************)
(* Vocabulary of the paper properties.                                     *)
(***************************************************************************)
PaperGenerated == gpc = "done" /\ downloadItem # << >>

KeyOfQuestion(question) == << question.pageNo, question.qNo >>

PoolKeys == { KeyOfQuestion(questionCandidates[i]) : i \in DOMAIN questionCandidates }

BucketKeys(c) ==
  { KeyOfQuestion(candidateBuckets[c].candidates[i]) :
      i \in DOMAIN candidateBuckets[c].candidates }

RenderedFromBucket(c) ==
  { i \in DOMAIN renderedQuestions : KeyOfQuestion(renderedQuestions[i]) \in BucketKeys(c) }

(***************************************************************************)
(* C23: when generatePaper succeeds for requestedCount n, the paper holds  *)
(* exactly n questions, pairwise distinct candidates of the pool, and      *)
(* exactly allocatedByCategory[c] of them come from bucket c, whatever the *)
(* shuffles gave.                                                          *)
(***************************************************************************)
C23_PaperMatchesAllocation ==
  PaperGenerated =>
    /\ Len(renderedQuestions) = toPositiveInt(questionCountInput)
    /\ downloadItem[1].questionCount = toPositiveInt(questionCountInput)
    /\ \A i \in DOMAIN renderedQuestions : KeyOfQuestion(renderedQuestions[i]) \in PoolKeys
    /\ \A i, j \in DOMAIN renderedQuestions :
         i # j => KeyOfQuestion(renderedQuestions[i]) # KeyOfQuestion(renderedQuestions[j])
    /\ \A c \in DOMAIN candidateBuckets :
         Cardinality(RenderedFromBucket(c)) = returned.counts[c]

(* a paper of several questions drawn from two buckets, one of which was  *)
(* cut below its size, in an order that is not the order of the pool      *)
C23_Witness ==
  /\ PaperGenerated
  /\ Len(renderedQuestions) >= 3
  /\ Len(candidateBuckets) >= 2
  /\ \E c \in DOMAIN candidateBuckets :
       /\ returned.counts[c] >= 1
       /\ returned.counts[c] < Len(candidateBuckets[c].candidates)
  /\ \E i \in DOMAIN renderedQuestions :
       i > 1 /\ renderedQuestions[i].pageNo < renderedQuestions[i - 1].pageNo

(***************************************************************************)
(* Vocabulary for the records of a page.                                   *)
(***************************************************************************)
RecordsOfPage(store, pageNo) ==
  { ref \in DOMAIN store :
      toPositiveInt(store[ref].pageNo) = pageNo /\ toPositiveInt(store[ref].qNo) # 0 }

RecordsAt(store, pageNo, qNo) ==
  { ref \in RecordsOfPage(store, pageNo) : toPositiveInt(store[ref].qNo) = qNo }

DistinctNumbers(store, pageNo) ==
  \A qNo \in 1..(MaxQNo + 1) : Cardinality(RecordsAt(store, pageNo, qNo)) <= 1

ContentOf(data) ==
  [parts |-> data.parts, reviewStatus |-> data.reviewStatus,
   previousSnapshot |-> data.previousSnapshot]

ContentsAt(store, pageNo, qNo) ==
  { ContentOf(store[ref]) : ref \in RecordsAt(store, pageNo, qNo) }

NumbersAbove(store, pageNo, qNo) ==
  { k \in 1..(MaxQNo + 1) : k > qNo /\ RecordsAt(store, pageNo, k) # {} }

(* the documents outside S are the same in both stores *)
SameOutside(before, after, changedBefore, changedAfter) ==
  /\ \A ref \in DOMAIN before \ changedBefore :
       ref \in DOMAIN after /\ after[ref] = before[ref]
  /\ DOMAIN after \ changedAfter \subseteq DOMAIN before \ changedBefore

(***************************************************************************)
(* C24: deleteQuestionAndShift(examId, p, q) on a page with distinct       *)
(* question numbers: when the page holds q, afterwards the record of q is  *)
(* gone, every record formerly at k > q is at k - 1 with its content,      *)
(* records below q and records of other pages are unchanged, and the       *)
(* result is deleted = true, shiftedCount = number of records above q,     *)
(* nextQNo = q when something was shifted and max(1, q - 1) otherwise;     *)
(* when the page does not hold q nothing is written and deleted = false.   *)
(***************************************************************************)
C24_DeleteShiftsAndFrames ==
  [][ ( /\ reply'.op = "deleteQuestionAndShift"
        /\ DistinctNumbers(questions, reply'.pageNo) )
      => LET p == reply'.pageNo
             q == reply'.qNo
             above == NumbersAbove(questions, p, q)
             moved(store) == { ref \in RecordsOfPage(store, p) :
                                 toPositiveInt(store[ref].qNo) >= q }
         IN IF RecordsAt(questions, p, q) = {}
              THEN /\ questions' = questions
                   /\ serverTime' = serverTime
                   /\ reply'.rows[1].deleted = FALSE
              ELSE /\ \A k \in q..(MaxQNo + 1) :
                        ContentsAt(questions', p, k) = ContentsAt(questions, p, k + 1)
                   /\ SameOutside(questions, questions', moved(questions), moved(questions'))
                   /\ reply'.rows[1] =
                        [deleted |-> TRUE,
                         shiftedCount |-> Cardinality(above),
                         nextQNo |-> IF above # {} THEN q ELSE Max(1, q - 1)] ]_vars

(***************************************************************************)
(* C27: restoreQuestionPreviousSnapshot swaps the current content with the *)
(* stored previous snapshot: after a restore the record has the parts and  *)
(* the review status of the snapshot and its snapshot holds the former     *)
(* content; a second restore gives back the original parts, review status  *)
(* and page number; without a previous snapshot the call returns null and  *)
(* writes nothing.                                                         *)
(***************************************************************************)
C27_RestoreSwaps ==
  [][ reply'.op = "restoreQuestionPreviousSnapshot"
      => LET qNo == reply'.qNo
             fallbackPageNo == reply'.pageNo
             before == fetchQuestionRecord(questions, qNo, fallbackPageNo)
             after == fetchQuestionRecord(questions', qNo, fallbackPageNo)
             twice == restoreQuestionPreviousSnapshot(questions', serverTime', qNo,
                                                      fallbackPageNo)
             back == fetchQuestionRecord(twice.store, qNo, fallbackPageNo)
         IN IF before = << >> \/ before[1].previousSnapshot = << >>
              THEN /\ reply'.rows = << >>
                   /\ questions' = questions
                   /\ serverTime' = serverTime
              ELSE /\ reply'.rows # << >>
                   /\ after # << >>
                   /\ after[1].parts = before[1].previousSnapshot[1].parts
                   /\ after[1].reviewStatus = before[1].previousSnapshot[1].reviewStatus
                   /\ after[1].pageNo = before[1].previousSnapshot[1].pageNo
                   /\ after[1].previousSnapshot # << >>
                   /\ after[1].previousSnapshot[1].parts = before[1].parts
                   /\ after[1].previousSnapshot[1].reviewStatus = before[1].reviewStatus
                   /\ after[1].previousSnapshot[1].pageNo = before[1].pageNo
                   /\ back # << >>
                   /\ back[1].parts = before[1].parts
                   /\ back[1].reviewStatus = before[1].reviewStatus
                   /\ back[1].pageNo = before[1].pageNo ]_vars

(* a restore that brought back content different from what it replaced *)
C27_Witness ==
  /\ reply.op = "restoreQuestionPreviousSnapshot"
  /\ reply.rows # << >>
  /\ reply.rows[1].previousSnapshot # << >>
  /\ reply.rows[1].parts # reply.rows[1].previousSnapshot[1].parts
  /\ reply.rows[1].reviewStatus # reply.rows[1].previousSnapshot[1].reviewStatus
  /\ fetchQuestionRecord(questions, reply.qNo, reply.pageNo) # << >>
  /\ fetchQuestionRecord(questions, reply.qNo, reply.pageNo)[1].parts = reply.rows[1].parts

(***************************************************************************)
(* C25: after any sequence of runAutoSuggest, addSuggestedDraft,           *)
(* deleteSuggestedDraftById and updateSuggestedDraftFromDisplayRect the    *)
(* question numbers of the drafts are pairwise distinct and are exactly    *)
(* s, s+1, ..., s+n-1, where n is the number of drafts and s the active    *)
(* question number at the last runAutoSuggest; inserting or deleting a     *)
(* draft, the first one included, does not move s.                         *)
(***************************************************************************)
C25_DraftsNumberedFromStart ==
  LET n == Len(suggestedDrafts)
  IN /\ \A i, j \in 1..n : i # j => suggestedDrafts[i].qNo # suggestedDrafts[j].qNo
     /\ { suggestedDrafts[i].qNo : i \in 1..n } = suggestStartQNo..(suggestStartQNo + n - 1)

(* the first suggested draft was deleted and two drafts were inserted, for *)
(* the second question                                                     *)
C25_Witness ==
  /\ Len(suggestedDrafts) = MaxDrafts
  /\ suggestedDrafts[1].part.rect = "inserted"
  /\ suggestedDrafts[2].part.rect = "inserted"
  /\ suggestStartQNo = 2

(***************************************************************************)
(* C26: a change the operator makes to the parts or the review status of   *)
(* the active question is followed, unless a later change supersedes it,   *)
(* by a saveQuestion call that carries the values of the page; and when    *)
(* the autosave effect finds skipNextAutosaveRef set and skips its         *)
(* autosave, the change that made it run is a programmatic load, never an  *)
(* edit of the operator.                                                   *)
(***************************************************************************)
OperatorChangePending(serial) == changeOrigin = "operator" /\ changeSerial = serial

SavedOrSuperseded(serial) == saveCall = << CurrentArguments >> \/ changeSerial # serial

(* the effect runs on an initialized page with the flag set *)
AutosaveSuppressed ==
  effectPending /\ ~effectPending' /\ questionInitialized /\ skipNextAutosaveRef

C26_OperatorEditsAutosaved ==
  /\ \A serial \in {0, 1} : OperatorChangePending(serial) ~> SavedOrSuperseded(serial)
  /\ [][ AutosaveSuppressed => changeOrigin = "program" ]_vars

(***************************************************************************)
(* C29: when renderPdfBatchWorker receives a batch message while the       *)
(* exam's renderStatus is "ready", or with a startPage other than the      *)
(* document's nextPageStart, the delivery renders no page, writes nothing  *)
(* to the exam document and enqueues nothing; so a message of a batch      *)
(* that was processed, delivered again, starts no render and does not      *)
(* move nextPageStart.                                                     *)
(***************************************************************************)
(* this step is the delivery of a batch message *)
BatchDelivered == renderLog' # renderLog

C29_StaleBatchIsNoOp ==
  [][ ( /\ BatchDelivered
        /\ \/ exam.renderStatus = "ready"
           \/ renderLog'.startPage # NextPageStartFromDoc(exam) )
      => /\ exam' = exam
         /\ derivedPages' = derivedPages
         /\ worker' = worker
         /\ worker.pc = "idle"
         /\ batchQueue' \subseteq batchQueue ]_vars

(* the message of the first batch came again after that batch was          *)
(* processed, and was skipped                                              *)
C29_Witness ==
  /\ renderLog.outcome = "stale"
  /\ renderLog.startPage = 1
  /\ exam.nextPageStart = PAGES_PER_RENDER_BATCH + 1
  /\ exam.renderedPageCount = PAGES_PER_RENDER_BATCH
  /\ faults.redelivered = 1
  /\ worker.pc = "idle"

(***************************************************************************)
(* C30: when a new PDF is uploaded, or a rerender is requested, while a    *)
(* batch of an earlier render of the exam is executing, the restart is not *)
(* lost: once its messages are handled, the exam is "ready" only when      *)
(* every page 1..N of the PDF stored now has been rendered from that PDF;  *)
(* the write that ends the executing batch does not make the worker skip   *)
(* the restart's message for page 1.                                       *)
(***************************************************************************)
RenderedFromStoredPdf ==
  \A p \in 1..sourcePdf.numPages : derivedPages[p] = sourcePdf.version

(* no message is left and no invocation runs *)
PipelineAtRest == batchQueue = {} /\ worker.pc = "idle"

C30_RestartNotLost ==
  (exam.renderStatus = "ready" /\ PipelineAtRest) => RenderedFromStoredPdf

(***************************************************************************)
(* C28: once the exam is queued for rendering (a PDF was uploaded or a     *)
(* rerender from page 1 was requested), with every batch message           *)
(* delivered and failed batches retried, the exam document reaches         *)
(* renderStatus "ready" with pageCount = renderedPageCount = N, no         *)
(* nextPageStart and every page 1..N rendered; and renderStatus is "ready" *)
(* only when the last rendered page is page N.                             *)
(***************************************************************************)
RenderComplete ==
  /\ exam.renderStatus = "ready"
  /\ exam.pageCount > 0
  /\ exam.renderedPageCount = exam.pageCount
  /\ exam.nextPageStart = 0
  /\ \A p \in 1..exam.pageCount : derivedPages[p] # 0

C28_RenderEventuallyReady ==
  /\ (exam.renderStatus = "queued") ~> RenderComplete
  /\ [](exam.renderStatus = "ready" => exam.renderedPageCount = exam.pageCount)

====
